---------------------------- MODULE Spec2Model ----------------------------
(***************************************************************************)
(* streamed-tui: the stream-discovery pipeline of internal/extractor.go.    *)
(*                                                                         *)
(*   RunExtractorCLI -> extractM3U8Lite -> node runner (puppeteer script)   *)
(*                   -> LaunchMPVWithHeaders -> mpv                         *)
(*                                                                         *)
(* Strings that the code only compares or copies are TLA+ strings; URLs    *)
(* that the code parses, resolves or searches are records of a host and a  *)
(* sequence of path segments.                                              *)
(***************************************************************************)
EXTENDS Naturals, Integers, Sequences, FiniteSets, TLC

VARIABLES
    \* ---- LaunchMPVWithHeaders (extractor.go 417-475) ----
    lpc,            \* position of the call: idle, called, wait, returned
    m3u8,           \* parameter m3u8 (a URL record)
    hdrs,           \* parameter hdrs (map[string]string)
    attachOutput,   \* parameter attachOutput
    args,           \* the argument list given to exec.Command("mpv", args...)
    mpvLog,         \* the lines passed to the log callback, in order
    mpv,            \* the player process: none, running, exited
    mpvExitErr,     \* TRUE when the player exited non-zero
    mpvStarts,      \* number of successful cmd.Start() calls
    launchCalls,    \* number of calls of LaunchMPVWithHeaders
    launchErr       \* the returned error: none (not returned), nil, or an error

launchVars == <<lpc, m3u8, hdrs, attachOutput, args, mpvLog, mpv, mpvExitErr,
                mpvStarts, launchCalls, launchErr>>

VARIABLES
    \* ---- the node runner written by writePuppeteerRunner (extractor.go 205-390) ----
    rpc,            \* position of the main async function
    browser,        \* the browser session: none, open, closed
    captured,       \* let captured
    resolved,       \* capturePromise has been resolved
    pending,        \* handleM3U8Response calls suspended at `await res.text()`
    arrivals,       \* number of response events delivered to the listener
    exitCode,       \* exit status of the node process (-1 while it runs)
    stdout,         \* the object printed by console.log(JSON.stringify(output))
    \* history of the resolution
    seen,           \* responses that passed the listener's filter
    handled,        \* handlers that ran to their end, and whether the wait had ended
    waitEnd,        \* how the capture wait ended: unset, captured, timeout
    domEvals,       \* number of page.evaluate calls of the DOM fallback
    navErr          \* page.goto, when traced: unset, ok, threw, "threw, capture held"

runnerVars == <<rpc, browser, captured, resolved, pending, arrivals, exitCode,
                stdout, seen, handled, waitEnd, domEvals, navErr>>

VARIABLES
    \* ---- extractM3U8Lite (extractor.go 145-199) ----
    epc,            \* idle, called, running, returned
    extractCalls,   \* number of calls of extractM3U8Lite
    resURL,         \* returned URL
    resHeaders,     \* returned header map
    resErr,         \* returned error: none (not returned), nil, or an error
    runnerPath,     \* the file puppeteer-runner-<nanos>.js: none, partial, written, removed
    \* ---- RunExtractorCLI (extractor.go 480-509) ----
    cpc,            \* idle, start, extracting, launching, returned
    embedURL,       \* parameter embedURL
    cliErr          \* the returned error

goVars == <<epc, extractCalls, resURL, resHeaders, resErr, runnerPath, cpc, embedURL,
            cliErr>>

VARIABLES
    \* ---- two resolutions of one embed URL against one backend ----
    run,            \* 0: not a repeated resolution; 1, 2: the resolution in progress
    backend,        \* what the embed page does, the same in both resolutions
    first           \* the result of the first resolution

idemVars == <<run, backend, first>>

VARIABLES
    \* ---- the Bubble Tea program of app.go: Model, commands, log ----
    focus,          \* Model.focus: 0 sports, 1 matches, 2 streams
    currentView,    \* Model.currentView: main, help
    sports,         \* *ListColumn[Sport]: items and selected
    matches,        \* *ListColumn[Match]
    streams,        \* *ListColumn[Stream]
    debugLines,     \* Model.debugLines of the model the program runs
    logTotal,       \* number of lines ever appended to that log
    cmds,           \* fetch and log commands started and not yet finished
    cmdCount,       \* number of fetch commands started so far
    extractions,    \* the closures returned by runExtractor, with their copy of the model
    lastKey,        \* the key message handled by the step just taken, if it was one
    quit            \* Update returned tea.Quit

tuiVars == <<focus, currentView, sports, matches, streams, debugLines, logTotal,
             cmds, cmdCount, extractions, lastKey, quit>>

VARIABLES
    \* ---- the caller of extractM3U8Lite ----
    cancel,         \* the wait point at which the caller gave up, or none
    \* ---- deriveHeaders (stream_utils.go 23-45) ----
    derive,         \* one call: its argument and, once returned, its results
    \* ---- ensureEmbeddedNodeModules, run by instances of the program ----
    cache,          \* the cache directory baseDir on disk
    inst,           \* each instance's position in ensureEmbeddedNodeModules
    \* ---- StaticResolver ----
    static,         \* one static resolution: its inputs, position and probes
    \* ---- Model.lastError (app.go 156) ----
    lastError,      \* TRUE when an error is held, FALSE when nil
    \* ---- one ListColumn on its own ----
    column          \* its items, selected, scroll, height and width

viewVars == <<lastError, column>>

auxVars == <<cancel, derive, cache, inst, static, viewVars>>

otherVars == <<idemVars, tuiVars, auxVars>>

vars == <<launchVars, runnerVars, goVars, otherVars>>

-----------------------------------------------------------------------------
(* Bounds *)

MaxHeaders == 3     \* a header map given to the launcher has at most this many keys
MaxResponses == 2   \* response events delivered to the listener in one resolution

-----------------------------------------------------------------------------
(* URLs *)

\* A URL is a host and a sequence of path segments; "" is the empty record.
EmptyURL == [host |-> "", path |-> <<>>]

\* Path segments of the model. The segments that contain the substring
\* ".m3u8" exactly as written (String.prototype.includes, strings.Contains).
Segments == {"live", "hd", "master.m3u8", "index.m3u8", "HD.M3U8", "hd.m3u8",
             "seg1.ts", ".."}

MarkedSegments == {"master.m3u8", "index.m3u8", "hd.m3u8"}

\* s.includes('.m3u8') on a URL string: some segment carries the marker.
ContainsM3U8(u) == \E i \in 1..Len(u.path) : u.path[i] \in MarkedSegments

LeafURL == [host |-> "cdn.example", path |-> <<"live", "hd", "index.m3u8">>]

-----------------------------------------------------------------------------
(* Header maps *)

\* Header names that occur as keys of a header map, in several spellings.
HeaderKeyUniverse ==
    {"user-agent", "User-Agent", "origin", "ORIGIN", "Referer", "cookie",
     "accept-language"}

HeaderValueUniverse == {"", "Mozilla/5.0 X11", "https://Embed.example"}

\* strings.ToLower on the key universe.
ToLower(s) ==
    CASE s = "User-Agent" -> "user-agent"
      [] s = "ORIGIN"     -> "origin"
      [] s = "Origin"     -> "origin"
      [] s = "Referer"    -> "referer"
      [] s = "Admin"      -> "admin"
      [] s = "ADMIN"      -> "admin"
      [] OTHER            -> s

\* strings.EqualFold(a, b)
EqualFold(a, b) == ToLower(a) = ToLower(b)

\* map[string]string values with at most MaxHeaders keys
HeaderMaps ==
    UNION { [ks -> HeaderValueUniverse] :
              ks \in { s \in SUBSET HeaderKeyUniverse : Cardinality(s) <= MaxHeaders } }

-----------------------------------------------------------------------------
(* lookupHeaderValue and the argument list *)

\* lookupHeaderValue(hdrs, name): `for k, v := range hdrs` visits the keys in
\* an order Go leaves unspecified, so the result is any value stored under a
\* key that folds to name, and "" when there is none.
lookupHeaderValue_CaseSensitive(h, name) ==
    IF name \in DOMAIN h THEN {h[name]} ELSE {""}

lookupHeaderValue(h, name) ==
    IF \E k \in DOMAIN h : EqualFold(k, name)
    THEN { h[k] : k \in { kk \in DOMAIN h : EqualFold(kk, name) } }
    ELSE {""}

\* headerKeys of LaunchMPVWithHeaders
headerKeys_WithCookie ==
    << [lookup |-> "user-agent", display |-> "User-Agent"],
       [lookup |-> "origin",     display |-> "Origin"],
       [lookup |-> "referer",    display |-> "Referer"],
       [lookup |-> "cookie",     display |-> "Cookie"] >>

headerKeys_Swapped ==
    << [lookup |-> "origin",     display |-> "Origin"],
       [lookup |-> "user-agent", display |-> "User-Agent"],
       [lookup |-> "referer",    display |-> "Referer"] >>

headerKeys ==
    << [lookup |-> "user-agent", display |-> "User-Agent"],
       [lookup |-> "origin",     display |-> "Origin"],
       [lookup |-> "referer",    display |-> "Referer"] >>

\* One element of the argument list.
\*   fmt.Sprintf("--http-header-fields=%s: %s", display, v) is a header flag,
\*   "--no-terminal" and "--really-quiet" are plain flags, the URL is last.
HeaderFlag(display, v) == [kind |-> "header", name |-> display, value |-> v, url |-> EmptyURL]
PlainFlag(f)           == [kind |-> "flag",   name |-> f,       value |-> "", url |-> EmptyURL]
URLArg(u)              == [kind |-> "url",    name |-> "",      value |-> "", url |-> u]

\* if !attachOutput { args = append(args, "--no-terminal", "--really-quiet") }
QuietArgs_Always(attach) ==
    << PlainFlag("--no-terminal"), PlainFlag("--really-quiet") >>

QuietArgs(attach) ==
    IF ~attach THEN << PlainFlag("--no-terminal"), PlainFlag("--really-quiet") >>
    ELSE << >>

\* The loop over headerKeys, given the value each lookup returned.
RECURSIVE HeaderArgs(_, _)
HeaderArgs(i, vals) ==
    IF i > Len(headerKeys) THEN << >>
    ELSE (IF vals[i] # "" THEN << HeaderFlag(headerKeys[i].display, vals[i]) >> ELSE << >>)
         \o HeaderArgs(i + 1, vals)

\* headerCount
HeaderCount(vals) == Cardinality({ i \in 1..Len(headerKeys) : vals[i] # "" })

\* The results the three lookups can return for a header map.
LookupResults(h) ==
    LET all == UNION { lookupHeaderValue(h, headerKeys[i].lookup) : i \in 1..Len(headerKeys) }
    IN  { vals \in [1..Len(headerKeys) -> all] :
            \A i \in 1..Len(headerKeys) :
                vals[i] \in lookupHeaderValue(h, headerKeys[i].lookup) }

BuildArgs(url, vals, attach) ==
    QuietArgs(attach) \o HeaderArgs(1, vals) \o << URLArg(url) >>

-----------------------------------------------------------------------------
(* LaunchMPVWithHeaders *)

\* if m3u8 == "" { return fmt.Errorf("empty m3u8 URL") }
IsEmptyM3U8_Never(u) == FALSE

IsEmptyM3U8(u) == u = EmptyURL

\* if attachOutput { ... cmd.Wait() ... }
WaitsForExit_Never(attach) == FALSE

WaitsForExit(attach) == attach

\* From the entry of the function to the return of cmd.Start().
LaunchStart ==
    /\ lpc = "called"
    /\ IF IsEmptyM3U8(m3u8)
       THEN /\ lpc' = "returned"
            /\ launchErr' = "empty m3u8 URL"
            /\ UNCHANGED <<args, mpvLog, mpv, mpvStarts>>
       ELSE \E vals \in LookupResults(hdrs), started \in BOOLEAN :
            /\ args' = BuildArgs(m3u8, vals, attachOutput)
            /\ IF ~started
               THEN /\ mpvLog' = mpvLog \o << "launching", "launch error" >>
                    /\ launchErr' = "start error"
                    /\ lpc' = "returned"
                    /\ UNCHANGED <<mpv, mpvStarts>>
               ELSE /\ mpv' = "running"
                    /\ mpvStarts' = mpvStarts + 1
                    /\ IF WaitsForExit(attachOutput)
                       THEN /\ mpvLog' = mpvLog \o << "launching", "started (attached)" >>
                            /\ lpc' = "wait"
                            /\ UNCHANGED launchErr
                       ELSE /\ mpvLog' = mpvLog \o << "launching", "started (pid)" >>
                            /\ lpc' = "returned"
                            /\ launchErr' = "nil"
    /\ UNCHANGED <<m3u8, hdrs, attachOutput, mpvExitErr, launchCalls>>
    /\ UNCHANGED <<runnerVars, goVars>>
    /\ UNCHANGED otherVars

\* The player process exits, with status zero or not.
MpvExit ==
    /\ mpv = "running"
    /\ \E failed \in BOOLEAN : mpvExitErr' = failed
    /\ mpv' = "exited"
    /\ UNCHANGED <<lpc, m3u8, hdrs, attachOutput, args, mpvLog, mpvStarts,
                   launchCalls, launchErr, runnerVars, goVars>>
    /\ UNCHANGED otherVars

\* cmd.Wait() returns.
LaunchWaitReturn ==
    /\ lpc = "wait"
    /\ mpv = "exited"
    /\ lpc' = "returned"
    /\ IF mpvExitErr
       THEN /\ mpvLog' = Append(mpvLog, "exited with error")
            /\ launchErr' = "exit error"
       ELSE /\ mpvLog' = Append(mpvLog, "exited")
            /\ launchErr' = "nil"
    /\ UNCHANGED <<m3u8, hdrs, attachOutput, args, mpv, mpvExitErr, mpvStarts,
                   launchCalls, runnerVars, goVars>>
    /\ UNCHANGED otherVars

-----------------------------------------------------------------------------
(* Playlist bodies and references (the runner's findNestedPlaylist) *)

\* String.prototype.toLowerCase on a path segment
SegToLower(seg) == IF seg = "HD.M3U8" THEN "hd.m3u8" ELSE seg

\* A reference found on a line of a playlist body: relative or absolute, and
\* `bad` when `new URL(line, baseUrl)` throws on it.
Ref(abs, host, path, bad) == [abs |-> abs, host |-> host, path |-> path, bad |-> bad]

NoRef == Ref(FALSE, "", << >>, FALSE)

\* A line of a body: blank, a comment (#...), an #EXTINF tag, or a URI line.
BlankLine     == [kind |-> "blank",   ref |-> NoRef]
CommentLine   == [kind |-> "comment", ref |-> NoRef]
ExtinfLine    == [kind |-> "extinf",  ref |-> NoRef]
UriLine(r)    == [kind |-> "uri",     ref |-> r]

MasterBody      == << CommentLine, BlankLine, UriLine(Ref(FALSE, "", <<"hd", "index.m3u8">>, FALSE)) >>
LeafBody        == << CommentLine, ExtinfLine, UriLine(Ref(FALSE, "", <<"seg1.ts">>, FALSE)) >>
LeafWithRefBody == << ExtinfLine, UriLine(Ref(TRUE, "alt.example", <<"live", "master.m3u8">>, FALSE)) >>
UpperBody       == << CommentLine, UriLine(Ref(FALSE, "", <<"HD.M3U8">>, FALSE)) >>
DotsBody        == << UriLine(Ref(FALSE, "", <<"seg1.ts">>, FALSE)),
                      UriLine(Ref(FALSE, "", <<"master.m3u8", "..", "seg1.ts">>, FALSE)) >>
BadRefBody      == << UriLine(Ref(TRUE, "", <<"index.m3u8">>, TRUE)) >>
PlainBody       == << CommentLine >>
EmptyBody       == << >>

\* body.includes('#EXTINF')
HasExtinf_Never(body) == FALSE

HasExtinf(body) == \E i \in 1..Len(body) : body[i].kind = "extinf"

\* line.toLowerCase().includes('.m3u8')
LineHasM3U8(r) == \E i \in 1..Len(r.path) : SegToLower(r.path[i]) \in MarkedSegments

\* Dot-segment removal of the URL parser.
RECURSIVE RemoveDots(_, _)
RemoveDots(path, acc) ==
    IF path = << >> THEN acc
    ELSE IF Head(path) = ".."
         THEN RemoveDots(Tail(path), IF acc = << >> THEN acc ELSE SubSeq(acc, 1, Len(acc) - 1))
         ELSE RemoveDots(Tail(path), Append(acc, Head(path)))

\* try { return new URL(line, baseUrl).toString() } catch (_) { return line }
ResolveRef(r, base) ==
    IF r.bad THEN [host |-> r.host, path |-> r.path]
    ELSE IF r.abs THEN [host |-> r.host, path |-> RemoveDots(r.path, << >>)]
    ELSE [host |-> base.host,
          path |-> RemoveDots(SubSeq(base.path, 1, Len(base.path) - 1) \o r.path, << >>)]

\* findNestedPlaylist(body, baseUrl): "" is EmptyURL
RECURSIVE findNestedPlaylist(_, _)
findNestedPlaylist(body, baseUrl) ==
    IF body = << >> THEN EmptyURL
    ELSE IF Head(body).kind # "uri" THEN findNestedPlaylist(Tail(body), baseUrl)
    ELSE IF LineHasM3U8(Head(body).ref) THEN ResolveRef(Head(body).ref, baseUrl)
    ELSE findNestedPlaylist(Tail(body), baseUrl)

-----------------------------------------------------------------------------
(* The backend: the responses the page's requests can receive *)

MasterURL == [host |-> "cdn.example", path |-> <<"live", "master.m3u8">>]
SegmentURL == [host |-> "cdn.example", path |-> <<"live", "seg1.ts">>]
UpperURL  == [host |-> "cdn.example", path |-> <<"live", "HD.M3U8">>]

\* res.request().headers(): puppeteer gives the names in lower case
MinHeaders  == [k \in {"accept-language"} |-> "en-US"]
FullHeaders ==
    [k \in {"referer", "origin", "cookie", "user-agent"} |->
        CASE k = "referer"    -> "https://player.example/"
          [] k = "origin"     -> "https://player.example"
          [] k = "cookie"     -> "sid=net"
          [] k = "user-agent" -> "PageUA"]

Response(u, b, h) == [url |-> u, body |-> b, headers |-> h]

Responses ==
    { Response(MasterURL,  MasterBody,      FullHeaders),
      Response(LeafURL,    LeafBody,        MinHeaders),
      Response(LeafURL,    LeafWithRefBody, FullHeaders),
      Response(MasterURL,  UpperBody,       MinHeaders),
      Response(MasterURL,  DotsBody,        MinHeaders),
      Response(MasterURL,  BadRefBody,      MinHeaders),
      Response(MasterURL,  PlainBody,       FullHeaders),
      Response(SegmentURL, LeafBody,        MinHeaders),
      Response(UpperURL,   LeafBody,        MinHeaders) }

\* What the DOM fallback's page.evaluate can return: '', a video source or an
\* HTML match (the regular expression is case-insensitive).
DomURL      == [host |-> "cdn.example", path |-> <<"live", "index.m3u8">>]
DomBlobURL  == [host |-> "blob",        path |-> <<"live">>]
DomCandidates == {EmptyURL, DomURL, UpperURL, DomBlobURL}

\* page.cookies(), and cookies.map(c => c.name + '=' + c.value).join('; ')
CookieJars == { << >>, << "sid=1" >>, << "sid=1", "t=2" >> }

CookieHeader(cookies) ==
    CASE cookies = << "sid=1" >>        -> "sid=1"
      [] cookies = << "sid=1", "t=2" >> -> "sid=1; t=2"
      [] OTHER                          -> ""

\* The embed URLs given on the command line.
EmbedURLs == {"", "  ", "https://embed.example/e/1", "embed.example/e/1"}

\* strings.TrimSpace
TrimSpace(s) == IF s = "  " THEN "" ELSE s

\* new URL(embedURL).origin, "throws" when the URL does not parse
URLOrigin(s) == IF s = "https://embed.example/e/1" THEN "https://embed.example" ELSE "throws"

\* const userAgent
userAgent == "Mozilla/5.0 (X11; Linux x86_64) Chrome/124.0.0.0"

-----------------------------------------------------------------------------
(* The node runner *)

Null == [url |-> EmptyURL, headers |-> << >>, hasExtinf |-> FALSE, null |-> TRUE]

Capture(u, h, x) == [url |-> u, headers |-> h, hasExtinf |-> x, null |-> FALSE]

\* JavaScript's h[k] || d
HeaderOr(h, k, d) == IF k \in DOMAIN h /\ h[k] # "" THEN h[k] ELSE d

\* h[k] = v
SetHeader(h, k, v) == [x \in (DOMAIN h) \cup {k} |-> IF x = k THEN v ELSE h[x]]

\* {} : the empty header object
NoHeaders == [k \in {} |-> ""]

\* The header enrichment of a held capture (runner lines 364-380).
Enrich(c, cookies, embed) ==
    LET h1 == IF Len(cookies) > 0
              THEN SetHeader(c.headers, "cookie", HeaderOr(c.headers, "cookie", CookieHeader(cookies)))
              ELSE c.headers
        h2 == SetHeader(h1, "user-agent", userAgent)
        h3 == SetHeader(h2, "referer", HeaderOr(h2, "referer", embed))
        h4 == IF URLOrigin(embed) = "throws" THEN h3
              ELSE SetHeader(h3, "origin", HeaderOr(h3, "origin", URLOrigin(embed)))
    IN  [c EXCEPT !.headers = h4]

\* page.on('response', ...): if (!res.url().includes('.m3u8')) return;
ListenerAccepts_All(res) == TRUE

ListenerAccepts(res) == ContainsM3U8(res.url)

\* finalUrl of handleM3U8Response, for the body that was read
FinalURL_NestedFirst(url, body) ==
    IF findNestedPlaylist(body, url) # EmptyURL THEN findNestedPlaylist(body, url)
    ELSE url

FinalURL(url, body) ==
    IF HasExtinf(body) THEN url
    ELSE IF findNestedPlaylist(body, url) # EmptyURL THEN findNestedPlaylist(body, url)
    ELSE url

\* if (!captured) { ... DOM fallback ... } after the race
NeedsDomFallback_Always(held) == TRUE

NeedsDomFallback(held) == held.null

\* if (!captured || hasExtinf)
Replaces_Always(held, hasExtinf) == TRUE

Replaces_FirstOnly(held, hasExtinf) == held.null

Replaces(held, hasExtinf) == held.null \/ hasExtinf

\* if (candidate && candidate.includes('.m3u8'))
DomAccepts_NonEmpty(candidate) == candidate # EmptyURL

DomAccepts(candidate) == candidate # EmptyURL /\ ContainsM3U8(candidate)

\* Page.navigate refuses a string that is not an absolute URL ("Cannot
\* navigate to invalid URL"): page.goto throws and the page stays blank.
Navigable(u) == URLOrigin(u) # "throws"

\* try { await page.goto(embedURL, ...) } catch (err) { console.error(...) }:
\* whether page.goto threw (invalid URL, network error, 45 s timeout).
GotoOutcomes(u) == IF Navigable(u) THEN {"threw", "ok"} ELSE {"threw"}

\* } catch (err) { console.error('[puppeteer] navigation warning: ' + ...) }
\* the error is logged and not rethrown.
GotoAborts_OnError(o) == o = "threw"

GotoAborts(o) == FALSE

\* What is remembered of page.goto's end: its outcome, and for an error
\* whether the listener had already made a capture by then.
NavOutcome(o, held) ==
    IF o = "threw" /\ ~held.null THEN "threw, capture held" ELSE o

\* What page.evaluate returns on the page the navigation left: the blank page
\* of a refused navigation has no video element and no playlist URL.
PageCandidates(u) == IF Navigable(u) THEN DomCandidates ELSE {EmptyURL}

\* The positions of the main flow at which the page exists and the listener
\* is registered: every await from page.goto to browser.close.
Listening == rpc \in {"goto", "race", "domEval", "cookies", "close"}

\* })().catch(err => { ...; process.exit(1) })
Crash ==
    /\ rpc' = "exited"
    /\ exitCode' = 1
    /\ UNCHANGED <<captured, resolved, pending, arrivals, stdout, seen, handled,
                   waitEnd, domEvals, navErr>>

\* Top of the script to launchBrowser(): the require calls or puppeteer.launch
\* can fail.
RunnerLaunch ==
    /\ rpc = "start"
    /\ \E ok \in BOOLEAN :
        IF ok THEN /\ browser' = "open"
                   /\ rpc' = "newPage"
                   /\ UNCHANGED <<captured, resolved, pending, arrivals, exitCode,
                                  stdout, seen, handled, waitEnd, domEvals, navErr>>
        ELSE Crash /\ UNCHANGED browser
    /\ UNCHANGED <<launchVars, goVars>>
    /\ UNCHANGED otherVars

\* browser.newPage() and the page set-up, up to the start of page.goto.
RunnerPageSetup ==
    /\ rpc = "newPage"
    /\ \E ok \in BOOLEAN :
        IF ok THEN /\ rpc' = "goto"
                   /\ UNCHANGED <<captured, resolved, pending, arrivals, exitCode,
                                  stdout, seen, handled, waitEnd, domEvals, navErr>>
        ELSE Crash
    /\ UNCHANGED <<browser, launchVars, goVars>>
    /\ UNCHANGED otherVars

\* page.goto returns or throws (the error is caught and logged); the main
\* flow then awaits Promise.race([capturePromise, 20 s timer]). The outcome
\* changes nothing the runner reads later; navErr remembers it when traced.
Navigated(traced) ==
    /\ rpc = "goto"
    /\ \E o \in GotoOutcomes(embedURL) :
        /\ navErr' = IF traced THEN NavOutcome(o, captured) ELSE navErr
        /\ IF GotoAborts(o)
           THEN rpc' = "exited" /\ exitCode' = 1
           ELSE rpc' = "race" /\ UNCHANGED exitCode
    /\ UNCHANGED <<browser, captured, resolved, pending, arrivals, stdout,
                   seen, handled, waitEnd, domEvals, launchVars, goVars>>
    /\ UNCHANGED otherVars

RunnerNavigated == Navigated(FALSE)

RunnerNavigatedTraced == Navigated(TRUE)

\* A response event: the listener starts handleM3U8Response, which suspends
\* at `await res.text()`.
ResponseEvent ==
    /\ Listening
    /\ Navigable(embedURL)
    /\ browser = "open"
    /\ arrivals < MaxResponses
    /\ \E res \in Responses :
        /\ arrivals' = arrivals + 1
        /\ IF ListenerAccepts(res)
           THEN /\ pending' = pending \cup {[id |-> arrivals + 1, res |-> res]}
                /\ seen' = seen \cup {res}
           ELSE UNCHANGED <<pending, seen>>
    /\ UNCHANGED <<rpc, browser, captured, resolved, exitCode, stdout, handled,
                   waitEnd, domEvals, navErr, launchVars, goVars>>
    /\ UNCHANGED otherVars

\* if (resolveCapture) resolveCapture(): the resolve function of a promise
\* returns at once, whether or not the promise is resolved already or awaited.
CanPublish_OnlyUnset(isResolved) == ~isResolved

CanPublish(isResolved) == TRUE

\* res.text() of the suspended call p settles and handleM3U8Response runs to
\* its end. The read can fail at any time and must fail once the browser is
\* gone; body is then ''.
HandleBody(p, ok) ==
    /\ rpc # "exited"
    /\ p \in pending
    /\ ok => browser = "open"
    /\ LET body == IF ok THEN p.res.body ELSE EmptyBody
           hasExtinf == HasExtinf(body)
       IN  /\ IF Replaces(captured, hasExtinf)
              THEN /\ CanPublish(resolved)
                   /\ captured' = Capture(FinalURL(p.res.url, body), p.res.headers, hasExtinf)
                   /\ resolved' = TRUE
              ELSE UNCHANGED <<captured, resolved>>
           /\ handled' = handled \cup
                 {[res |-> p.res, ok |-> ok, inWait |-> waitEnd = "unset"]}
    /\ pending' = pending \ {p}
    /\ UNCHANGED <<rpc, browser, arrivals, exitCode, stdout, seen, waitEnd,
                   domEvals, navErr, launchVars, goVars>>
    /\ UNCHANGED otherVars

\* Any suspended handler goes on.
BodyRead == \E p \in pending, ok \in BOOLEAN : HandleBody(p, ok)

\* After the race: `if (!captured)` starts the DOM scan, else `if (captured)`
\* starts page.cookies().
AfterWait(how) ==
    /\ waitEnd' = how
    /\ IF NeedsDomFallback(captured)
       THEN /\ rpc' = "domEval"
            /\ domEvals' = domEvals + 1
       ELSE /\ rpc' = "cookies"
            /\ UNCHANGED domEvals
    /\ UNCHANGED <<browser, captured, resolved, pending, arrivals, exitCode, stdout,
                   seen, handled, navErr, launchVars, goVars>>

\* await Promise.race([capturePromise, timer]): capturePromise wins when it is
\* resolved, also when it was resolved before the race was awaited.
CaptureWins_Never(isResolved) == FALSE

CaptureWins(isResolved) == isResolved

\* The race is won by capturePromise.
RunnerWaitCaptured ==
    /\ rpc = "race"
    /\ CaptureWins(resolved)
    /\ AfterWait("captured")
    /\ UNCHANGED otherVars

\* The race is won by the 20 s timer: nothing resolved capturePromise.
RunnerWaitTimeout ==
    /\ rpc = "race"
    /\ ~CaptureWins(resolved)
    /\ AfterWait("timeout")
    /\ UNCHANGED otherVars

\* page.evaluate of the DOM fallback returns a candidate or throws.
RunnerDomEvaluated ==
    /\ rpc = "domEval"
    /\ \E ok \in BOOLEAN :
        IF ok
        THEN \E candidate \in PageCandidates(embedURL) :
             LET c == IF DomAccepts(candidate)
                      THEN Capture(candidate, NoHeaders, FALSE) ELSE captured
             IN  /\ captured' = c
                 /\ rpc' = IF c.null THEN "close" ELSE "cookies"
                 /\ UNCHANGED <<resolved, pending, arrivals, exitCode, stdout, seen,
                                handled, waitEnd, domEvals, navErr>>
        ELSE Crash
    /\ UNCHANGED <<browser, launchVars, goVars>>
    /\ UNCHANGED otherVars

\* page.cookies() returns or throws; the enrichment of the held capture.
RunnerCookies ==
    /\ rpc = "cookies"
    /\ \E ok \in BOOLEAN :
        IF ok
        THEN \E cookies \in CookieJars :
             /\ captured' = Enrich(captured, cookies, embedURL)
             /\ rpc' = "close"
             /\ UNCHANGED <<resolved, pending, arrivals, exitCode, stdout, seen,
                            handled, waitEnd, domEvals, navErr>>
        ELSE Crash
    /\ UNCHANGED <<browser, launchVars, goVars>>
    /\ UNCHANGED otherVars

\* browser.close() returns or throws; then the output is printed and the
\* process ends with status 0.
RunnerClosed ==
    /\ rpc = "close"
    /\ \E ok \in BOOLEAN :
        IF ok
        THEN /\ browser' = "closed"
             /\ stdout' = captured
             /\ rpc' = "exited"
             /\ exitCode' = 0
             /\ UNCHANGED <<captured, resolved, pending, arrivals, seen, handled,
                            waitEnd, domEvals, navErr>>
        ELSE Crash /\ UNCHANGED browser
    /\ UNCHANGED <<launchVars, goVars>>
    /\ UNCHANGED otherVars

-----------------------------------------------------------------------------
(* extractM3U8Lite *)

\* The steps before the runner is started, each of which can fail:
\* findNodeModuleBase, ensurePuppeteerAvailable, writePuppeteerRunner.
SetupOutcomes ==
    {"ok", "puppeteer-extra not found", "puppeteer-extra or stealth plugin missing",
     "write runner failed"}

RunnerIdle ==
    /\ rpc = "idle"
    /\ browser = "none"
    /\ captured = Null
    /\ resolved = FALSE
    /\ pending = {}
    /\ arrivals = 0
    /\ exitCode = -1
    /\ stdout = Null
    /\ seen = {}
    /\ handled = {}
    /\ waitEnd = "unset"
    /\ domEvals = 0
    /\ navErr = "unset"

\* os.WriteFile in writePuppeteerRunner: the steps before it return without
\* touching the file; a failing WriteFile failed to create the file or failed
\* after creating it, which leaves a truncated file.
WriteFile(setup, file) ==
    IF setup = "write runner failed" THEN {file, "partial"} ELSE {file}

\* defer os.Remove(runnerPath), registered once the file is written
RemoveRunner_Kept(file) == file

RemoveRunner(file) == IF file = "written" THEN "removed" ELSE file

\* From the entry of extractM3U8Lite to the start of cmd.Run().
ExtractStart ==
    /\ epc = "called"
    /\ IF TrimSpace(embedURL) = ""
       THEN /\ epc' = "returned"
            /\ resErr' = "empty embed URL"
            /\ UNCHANGED <<rpc, runnerPath>>
       ELSE \E setup \in SetupOutcomes :
            IF setup = "ok"
            THEN /\ epc' = "running"
                 /\ rpc' = "start"
                 /\ runnerPath' = "written"
                 /\ UNCHANGED resErr
            ELSE /\ epc' = "returned"
                 /\ resErr' = setup
                 /\ runnerPath' \in WriteFile(setup, runnerPath)
                 /\ UNCHANGED rpc
    /\ UNCHANGED <<browser, captured, resolved, pending, arrivals, exitCode, stdout,
                   seen, handled, waitEnd, domEvals, navErr>>
    /\ UNCHANGED <<extractCalls, resURL, resHeaders, cpc, embedURL, cliErr, launchVars>>
    /\ UNCHANGED otherVars

\* if res.URL == "" { ...; return "", nil, errors.New("m3u8 not found") }
NoURLInOutput_Never(out) == FALSE

NoURLInOutput(out) == out.url = EmptyURL

\* cmd.Run() returns: the exit status, the decoded output, the empty-URL test.
ExtractReturn ==
    /\ epc = "running"
    /\ rpc = "exited"
    /\ epc' = "returned"
    /\ runnerPath' = RemoveRunner(runnerPath)
    /\ IF exitCode # 0
       THEN /\ resErr' = "puppeteer runner failed"
            /\ UNCHANGED <<resURL, resHeaders>>
       ELSE IF NoURLInOutput(stdout)
       THEN /\ resErr' = "m3u8 not found"
            /\ UNCHANGED <<resURL, resHeaders>>
       ELSE /\ resErr' = "nil"
            /\ resURL' = stdout.url
            /\ resHeaders' = stdout.headers
    /\ UNCHANGED <<extractCalls, cpc, embedURL, cliErr, launchVars, runnerVars>>
    /\ UNCHANGED otherVars

-----------------------------------------------------------------------------
(* RunExtractorCLI *)

\* LaunchMPVWithHeaders(m3u8, hdrs, logger, true)
CLIAttachOutput_Detached == FALSE

CLIAttachOutput == TRUE

\* if err != nil { ...; return err } after extractM3U8Lite
ExtractFailed_Never(err) == FALSE

ExtractFailed(err) == err # "nil"

CLIStart ==
    /\ cpc = "start"
    /\ IF TrimSpace(embedURL) = ""
       THEN /\ cpc' = "returned"
            /\ cliErr' = "missing embed URL"
            /\ UNCHANGED <<epc, extractCalls>>
       ELSE /\ cpc' = "extracting"
            /\ epc' = "called"
            /\ extractCalls' = extractCalls + 1
            /\ UNCHANGED cliErr
    /\ UNCHANGED <<resURL, resHeaders, resErr, runnerPath, embedURL, launchVars,
                   runnerVars>>
    /\ UNCHANGED otherVars

CLIExtracted ==
    /\ cpc = "extracting"
    /\ epc = "returned"
    /\ IF ExtractFailed(resErr)
       THEN /\ cpc' = "returned"
            /\ cliErr' = resErr
            /\ UNCHANGED launchVars
       ELSE /\ cpc' = "launching"
            /\ lpc' = "called"
            /\ m3u8' = resURL
            /\ hdrs' = resHeaders
            /\ attachOutput' = CLIAttachOutput
            /\ launchCalls' = launchCalls + 1
            /\ UNCHANGED <<args, mpvLog, mpv, mpvExitErr, mpvStarts, launchErr, cliErr>>
    /\ UNCHANGED <<epc, extractCalls, resURL, resHeaders, resErr, runnerPath, embedURL,
                   runnerVars>>
    /\ UNCHANGED otherVars

CLILaunched ==
    /\ cpc = "launching"
    /\ lpc = "returned"
    /\ cpc' = "returned"
    /\ cliErr' = launchErr
    /\ UNCHANGED <<epc, extractCalls, resURL, resHeaders, resErr, runnerPath, embedURL,
                   launchVars, runnerVars>>
    /\ UNCHANGED otherVars

-----------------------------------------------------------------------------
(* Specifications *)

LaunchIdle ==
    /\ lpc = "idle"
    /\ m3u8 = EmptyURL
    /\ hdrs = NoHeaders
    /\ attachOutput = FALSE
    /\ args = << >>
    /\ mpvLog = << >>
    /\ mpv = "none"
    /\ mpvExitErr = FALSE
    /\ mpvStarts = 0
    /\ launchCalls = 0
    /\ launchErr = "none"

GoIdle ==
    /\ epc = "idle"
    /\ extractCalls = 0
    /\ resURL = EmptyURL
    /\ resHeaders = NoHeaders
    /\ resErr = "none"
    /\ runnerPath = "none"
    /\ cliErr = "none"

\* No repeated resolution is in progress.
NoBackend == [responses |-> << >>, dom |-> EmptyURL, cookies |-> << >>]

NoResult == [url |-> EmptyURL, headers |-> NoHeaders, err |-> "none"]

IdemIdle ==
    /\ run = 0
    /\ backend = NoBackend
    /\ first = NoResult

\* A list column as NewListColumn leaves it.
EmptyColumn == [items |-> << >>, selected |-> 0]

NoStream == [source |-> "", embed |-> "", none |-> TRUE]

\* The step just taken was not a key message.
NoKey == [key |-> "", opened |-> ""]

\* A log with no line. A log is kept as the number of lines it still holds of
\* those it held when the model starts, followed by the lines appended since.
EmptyLog == [earlier |-> 0, recent |-> << >>]

\* The terminal UI is not running.
TUIIdle ==
    /\ focus = 0
    /\ currentView = "main"
    /\ sports = EmptyColumn
    /\ matches = EmptyColumn
    /\ streams = EmptyColumn
    /\ debugLines = EmptyLog
    /\ logTotal = 0
    /\ cmds = {}
    /\ cmdCount = 0
    /\ extractions = {}
    /\ lastKey = NoKey
    /\ quit = FALSE

\* deriveHeaders has not been called.
NoDerive == [pc |-> "idle"]

\* The cache directory does not exist.
NoCache == [dir |-> FALSE, files |-> {}, marker |-> FALSE]

\* No instance runs ensureEmbeddedNodeModules.
NoInstances == << >>

\* StaticResolver has not been called.
NoStatic == [pc |-> "idle"]

\* No list column is exercised on its own.
NoColumn == [items |-> << >>]

\* No error is shown, and no column is exercised on its own.
ViewIdle ==
    /\ lastError = FALSE
    /\ column = NoColumn

\* The caller has not given up, and nothing else runs.
AuxIdle ==
    /\ cancel = "none"
    /\ derive = NoDerive
    /\ cache = NoCache
    /\ inst = NoInstances
    /\ static = NoStatic
    /\ ViewIdle

OtherIdle == IdemIdle /\ TUIIdle /\ AuxIdle

\* `streamed-tui -e <embedURL>`: one call of RunExtractorCLI.
Init ==
    /\ LaunchIdle
    /\ RunnerIdle
    /\ GoIdle
    /\ OtherIdle
    /\ cpc = "start"
    /\ embedURL \in EmbedURLs

Next ==
    \/ CLIStart \/ ExtractStart
    \/ RunnerLaunch \/ RunnerPageSetup \/ RunnerNavigated \/ ResponseEvent
    \/ BodyRead \/ RunnerWaitCaptured \/ RunnerWaitTimeout \/ RunnerDomEvaluated
    \/ RunnerCookies \/ RunnerClosed
    \/ ExtractReturn \/ CLIExtracted
    \/ LaunchStart \/ MpvExit \/ LaunchWaitReturn
    \/ CLILaunched

Spec == Init /\ [][Next]_vars

\* One resolution, from the call of extractM3U8Lite to its return, with the
\* outcome of page.goto remembered.
NavNext ==
    \/ CLIStart \/ ExtractStart
    \/ RunnerLaunch \/ RunnerPageSetup \/ RunnerNavigatedTraced \/ ResponseEvent
    \/ BodyRead \/ RunnerWaitCaptured \/ RunnerWaitTimeout \/ RunnerDomEvaluated
    \/ RunnerCookies \/ RunnerClosed
    \/ ExtractReturn

SpecNav == Init /\ [][NavNext]_vars

\* LaunchMPVWithHeaders called with any URL, header map and mode.
LaunchInit ==
    /\ lpc = "called"
    /\ m3u8 \in {EmptyURL, LeafURL}
    /\ hdrs \in HeaderMaps
    /\ attachOutput \in BOOLEAN
    /\ args = << >>
    /\ mpvLog = << >>
    /\ mpv = "none"
    /\ mpvExitErr = FALSE
    /\ mpvStarts = 0
    /\ launchCalls = 1
    /\ launchErr = "none"
    /\ RunnerIdle
    /\ GoIdle
    /\ OtherIdle
    /\ cpc = "idle"
    /\ embedURL = ""

LaunchNext == LaunchStart \/ MpvExit \/ LaunchWaitReturn

SpecLaunch == LaunchInit /\ [][LaunchNext]_vars

-----------------------------------------------------------------------------
(* Properties of LaunchMPVWithHeaders, checked under SpecLaunch *)

\* The three names of the minimal header set and the lower-case name each is
\* looked up by.
MinimalNames == {"User-Agent", "Origin", "Referer"}

LookupName(display) ==
    CASE display = "User-Agent" -> "user-agent"
      [] display = "Origin"     -> "origin"
      [] display = "Referer"    -> "referer"

NameRank(display) ==
    CASE display = "User-Agent" -> 1
      [] display = "Origin"     -> 2
      [] display = "Referer"    -> 3
      [] OTHER                  -> 0

\* The values the map stores under the keys equal to a name ignoring case.
StoredUnder(h, display) ==
    { h[k] : k \in { kk \in DOMAIN h : ToLower(kk) = LookupName(display) } }

\* A header map whose keys are unique under case folding.
UniqueUnderFolding(h) ==
    \A k1, k2 \in DOMAIN h : ToLower(k1) = ToLower(k2) => k1 = k2

HeaderArgIndexes == { i \in 1..Len(args) : args[i].kind = "header" }

ArgsBuilt == lpc \in {"wait", "returned"} /\ args # << >>

\* C1: the argument list carries header flags only for User-Agent, Origin and
\* Referer, at most one flag each; no other captured header is forwarded; a
\* flag never carries an empty value, and a name whose every stored value is
\* empty (or that is not stored at all) gets no flag.
C1_OnlyMinimalHeaders ==
    /\ \A i \in HeaderArgIndexes :
        /\ args[i].name \in MinimalNames
        /\ args[i].value # ""
        /\ args[i].value \in StoredUnder(hdrs, args[i].name)
        /\ \A j \in HeaderArgIndexes : args[j].name = args[i].name => j = i
    /\ \A d \in MinimalNames :
        StoredUnder(hdrs, d) \subseteq {""} =>
            ~ \E i \in HeaderArgIndexes : args[i].name = d

C1_Witness ==
    /\ ArgsBuilt
    /\ "cookie" \in DOMAIN hdrs /\ hdrs["cookie"] # ""
    /\ "Referer" \in DOMAIN hdrs /\ hdrs["Referer"] = ""
    /\ "user-agent" \in DOMAIN hdrs /\ hdrs["user-agent"] # ""
    /\ Cardinality(HeaderArgIndexes) = 1

\* C6: in attached mode the call returns only after the player has exited and
\* returns the exit error exactly when it exited non-zero; in detached mode it
\* never waits and returns nil right after the start; when the process cannot
\* be started the start error is returned in both modes, no process exists and
\* the call never waited.
C6_AttachedWaitsDetachedReturns ==
    /\ (lpc = "returned" /\ attachOutput /\ launchErr \in {"nil", "exit error"}) =>
          /\ mpv = "exited"
          /\ (launchErr = "exit error") <=> mpvExitErr
    /\ (lpc = "returned" /\ attachOutput /\ mpvStarts > 0) => mpv = "exited"
    /\ ~attachOutput => lpc # "wait"
    /\ (lpc = "returned" /\ ~attachOutput /\ mpvStarts > 0) =>
          /\ launchErr = "nil"
          /\ mpvLog = << "launching", "started (pid)" >>
    /\ (lpc = "returned" /\ mpvStarts = 0 /\ m3u8 # EmptyURL) =>
          /\ launchErr = "start error"
          /\ mpv = "none"
          /\ mpvLog = << "launching", "launch error" >>
    /\ launchErr = "start error" => mpvStarts = 0 /\ mpv = "none"

C6_Witness ==
    /\ lpc = "returned"
    /\ attachOutput
    /\ mpv = "exited"
    /\ launchErr = "exit error"

\* C7: the argument list is the quiet flags (exactly when detached), then the
\* header flags of the present headers in the order User-Agent, Origin,
\* Referer, then the playlist URL as the last argument.
C7_ArgumentOrder ==
    ArgsBuilt =>
        LET quiet == IF attachOutput THEN 0 ELSE 2
            n == Len(args)
        IN  /\ n >= quiet + 1
            /\ args[n] = URLArg(m3u8)
            /\ \A i \in 1..n :
                 /\ (i <= quiet) <=> (args[i].kind = "flag")
                 /\ (i = n) <=> (args[i].kind = "url")
            /\ ~attachOutput =>
                 /\ args[1] = PlainFlag("--no-terminal")
                 /\ args[2] = PlainFlag("--really-quiet")
            /\ \A i, j \in HeaderArgIndexes :
                 i < j => NameRank(args[i].name) < NameRank(args[j].name)
            /\ \A d \in MinimalNames :
                 (StoredUnder(hdrs, d) # {} /\ "" \notin StoredUnder(hdrs, d)) =>
                     \E i \in HeaderArgIndexes : args[i].name = d

C7_Witness ==
    /\ ArgsBuilt
    /\ ~attachOutput
    /\ Len(args) = 6

\* C8: a call with an empty playlist URL returns the empty-URL error in both
\* modes; no player process is started, no argument list is built and no log
\* line is emitted.
C8_EmptyURLFails ==
    (lpc = "returned" /\ m3u8 = EmptyURL) =>
        /\ launchErr = "empty m3u8 URL"
        /\ mpv = "none"
        /\ mpvStarts = 0
        /\ mpvLog = << >>
        /\ args = << >>

C8_Witness ==
    /\ lpc = "returned"
    /\ m3u8 = EmptyURL
    /\ attachOutput
    /\ DOMAIN hdrs # {}

\* C9: for a header map whose keys are unique under case folding, each of the
\* three names stored (in any spelling of the key) with a non-empty value is
\* forwarded with exactly that value, under the canonical spelling of the
\* name; nothing else is forwarded under that name.
C9_CaseInsensitiveLookup ==
    (ArgsBuilt /\ UniqueUnderFolding(hdrs)) =>
        \A d \in MinimalNames :
            /\ \A k \in DOMAIN hdrs :
                 (ToLower(k) = LookupName(d) /\ hdrs[k] # "") =>
                     \E i \in HeaderArgIndexes : args[i] = HeaderFlag(d, hdrs[k])
            /\ \A i \in HeaderArgIndexes :
                 args[i].name = d =>
                     \E k \in DOMAIN hdrs :
                         ToLower(k) = LookupName(d) /\ args[i].value = hdrs[k]
            /\ \A i \in HeaderArgIndexes : args[i].name \in MinimalNames

C9_Witness ==
    /\ ArgsBuilt
    /\ UniqueUnderFolding(hdrs)
    /\ "ORIGIN" \in DOMAIN hdrs /\ hdrs["ORIGIN"] = "https://Embed.example"
    /\ "User-Agent" \in DOMAIN hdrs /\ hdrs["User-Agent"] = "Mozilla/5.0 X11"
    /\ \E i \in HeaderArgIndexes : args[i] = HeaderFlag("Origin", "https://Embed.example")
    /\ \E i \in HeaderArgIndexes : args[i] = HeaderFlag("User-Agent", "Mozilla/5.0 X11")

-----------------------------------------------------------------------------
(* Properties of the browser resolution and of RunExtractorCLI, under Spec *)

\* A response is segment-marked when its body holds the leaf-segment marker
\* #EXTINF, and generic otherwise.
SegmentMarked(res) == \E i \in 1..Len(res.body) : res.body[i].kind = "extinf"

RunnerSucceeded == rpc = "exited" /\ exitCode = 0

\* Both kinds of response were handled (the segment-marked one with its body
\* read) before the capture wait ended.
BothHandledInWait ==
    /\ \E h \in handled : h.inWait /\ ~SegmentMarked(h.res)
    /\ \E h \in handled : h.inWait /\ h.ok /\ SegmentMarked(h.res)

\* C2 as stated: when a generic and a segment-marked playlist response both
\* arrived in a resolution that returns a capture, the capture returned is the
\* segment-marked one.
C2_SegmentMarkedAlwaysWins ==
    (/\ RunnerSucceeded
     /\ stdout.url # EmptyURL
     /\ \E r \in seen : ~SegmentMarked(r)
     /\ \E r \in seen : SegmentMarked(r)) =>
        /\ stdout.hasExtinf
        /\ \E r \in seen : SegmentMarked(r) /\ stdout.url = r.url

\* C2 amended: when a generic and a segment-marked playlist response have both
\* been handled before the capture wait ends, in either order, the runner's
\* result is a segment-marked one.
C2_SegmentMarkedWinsInWait ==
    /\ (RunnerSucceeded /\ BothHandledInWait) =>
          /\ stdout.hasExtinf
          /\ \E h \in handled : h.ok /\ SegmentMarked(h.res) /\ stdout.url = h.res.url
    /\ (epc = "returned" /\ BothHandledInWait /\ exitCode = 0) =>
          /\ resErr = "nil"
          /\ \E h \in handled : h.ok /\ SegmentMarked(h.res) /\ resURL = h.res.url

C2_Witness ==
    /\ epc = "returned"
    /\ BothHandledInWait
    /\ resErr = "nil"
    /\ resURL = LeafURL

\* C3: the DOM fallback is evaluated at most once in a resolution; it has been
\* evaluated exactly once as soon as the wait ended by the timer with nothing
\* captured, and never when the wait ended with a capture held.
C3_OneDomFallback ==
    /\ domEvals <= 1
    /\ waitEnd = "unset" => domEvals = 0
    /\ waitEnd = "timeout" => domEvals = 1
    /\ waitEnd = "captured" => domEvals = 0 /\ ~captured.null
    /\ rpc = "domEval" => waitEnd = "timeout"
    /\ (rpc = "race" /\ ~captured.null) => resolved

C3_Witness ==
    /\ rpc = "exited"
    /\ waitEnd = "timeout"
    /\ domEvals = 1
    /\ seen # {}

\* C4: when the runner process has ended after launching a browser, the
\* browser session has been closed.
C4_BrowserAlwaysClosed ==
    (rpc = "exited" /\ browser # "none") => browser = "closed"

\* C5: RunExtractorCLI calls the player launcher exactly once, in attached
\* mode, when the resolver returned successfully, and returns the launcher's
\* result; when the resolver failed (or was not called) it returns that
\* failure, the launcher is never called and the resolver is not called again.
C5_LaunchIffResolved ==
    /\ extractCalls <= 1 /\ launchCalls <= 1 /\ mpvStarts <= launchCalls
    /\ launchCalls = 1 => (resErr = "nil" /\ attachOutput)
    /\ cpc = "returned" =>
        IF resErr = "nil"
        THEN /\ launchCalls = 1
             /\ attachOutput
             /\ cliErr = launchErr
             /\ mpvStarts = (IF launchErr = "start error" THEN 0 ELSE 1)
        ELSE /\ launchCalls = 0
             /\ mpv = "none"
             /\ cliErr = (IF extractCalls = 0 THEN "missing embed URL" ELSE resErr)

C5_Witness ==
    /\ cpc = "returned"
    /\ resErr = "nil"
    /\ launchCalls = 1
    /\ mpv = "exited"
    /\ cliErr = "nil"

\* C10: every URL a successful resolution returns is non-empty and contains
\* the playlist marker '.m3u8'.
C10_ReturnedURLHasMarker ==
    (epc = "returned" /\ resErr = "nil") =>
        /\ resURL # EmptyURL
        /\ ContainsM3U8(resURL)

-----------------------------------------------------------------------------
(* Properties of the resolution's outcome, checked under Spec *)

\* The runner ran to its end (status 0) and neither the listener nor the DOM
\* scan left a capture: it printed { url: '', headers: {} }.
NoCandidate == rpc = "exited" /\ exitCode = 0 /\ stdout.null

RawHeaderSets == { r.headers : r \in seen } \cup { NoHeaders }

\* A header set is the enrichment of the raw set under a cookie jar: the fixed
\* user agent; referer and origin kept when captured, else the embed URL and
\* its origin; with cookies in the session, the captured cookie header when
\* there is one, else the joined cookies; every other header as captured.
IsEnrichmentOf(h, raw, cookies) ==
    /\ DOMAIN h = DOMAIN raw \cup {"user-agent", "referer", "origin"}
                     \cup (IF cookies # << >> THEN {"cookie"} ELSE {})
    /\ h["user-agent"] = userAgent
    /\ h["referer"] = HeaderOr(raw, "referer", embedURL)
    /\ h["origin"] = HeaderOr(raw, "origin", URLOrigin(embedURL))
    /\ cookies # << >> => h["cookie"] = HeaderOr(raw, "cookie", CookieHeader(cookies))
    /\ \A k \in DOMAIN raw \ {"user-agent", "referer", "origin", "cookie"} : h[k] = raw[k]
    /\ ("cookie" \in DOMAIN raw /\ cookies = << >>) => h["cookie"] = raw["cookie"]

\* C12: the header set returned with a candidate, from either path, is the
\* enrichment of the captured header set: fixed user agent, referer and origin
\* defaulted from the embed URL, and the session's cookies as one cookie header
\* when the capture had none.
C12_ReturnedHeadersEnriched ==
    (epc = "returned" /\ resErr = "nil") =>
        \E raw \in RawHeaderSets, cookies \in CookieJars :
            IsEnrichmentOf(resHeaders, raw, cookies)

GotoThrew == navErr \in {"threw", "threw, capture held"}

\* C13: a page.goto that throws (navigation error or the 45 s timeout) does not
\* end the run: whenever the runner has exited after such an error the capture
\* wait had been performed, and the DOM scan too when the wait timed out; a
\* capture held when the error was thrown is still held afterwards, ends the
\* wait at once and is returned unless a later step of the runner fails; and
\* every capture the runner prints after a navigation error is returned as the
\* result.
C13_NavigationErrorNotFatal ==
    /\ (GotoThrew /\ rpc = "exited") =>
          /\ waitEnd # "unset"
          /\ waitEnd = "timeout" => domEvals = 1
    /\ navErr = "threw, capture held" =>
          /\ ~captured.null
          /\ waitEnd \in {"unset", "captured"}
          /\ (epc = "returned" /\ exitCode = 0) => resErr = "nil"
    /\ (GotoThrew /\ epc = "returned" /\ exitCode = 0 /\ ~stdout.null) =>
          /\ resErr = "nil"
          /\ resURL = stdout.url

\* A capture made after the navigation error is returned.
C13_Witness ==
    /\ navErr = "threw"
    /\ waitEnd = "captured"
    /\ epc = "returned"
    /\ resErr = "nil"
    /\ resURL # EmptyURL

\* A capture made before the navigation error is returned.
C13_CaptureBeforeErrorReturned ==
    /\ navErr = "threw, capture held"
    /\ epc = "returned"
    /\ resErr = "nil"

\* C14: the enrichment step never ends the resolution: when page.cookies()
\* settles with a capture held, the runner goes on to close the browser and
\* print the capture, and does not exit with a failure status.
C14_EnrichmentFailureNotFatal ==
    [][(rpc = "cookies" /\ ~captured.null /\ rpc' # rpc) =>
          /\ rpc' = "close"
          /\ ~captured'.null
          /\ exitCode' = exitCode]_vars

\* C15: once the capture wait has been ended by the capture signal, a response
\* handler that completes afterwards changes nothing of the held capture:
\* neither its URL nor its headers.
C15_NoCaptureAfterWaitConsumed ==
    [][(waitEnd = "captured" /\ pending' # pending) =>
          /\ captured'.url = captured.url
          /\ captured'.headers = captured.headers]_vars

-----------------------------------------------------------------------------
(* Two resolutions of one embed URL against a deterministic backend *)

\* The responses the embed page causes, in the order they reach the listener.
ResponseSeqs ==
    { rs \in UNION { [1..n -> Responses] : n \in 0..MaxResponses } :
        \A i, j \in DOMAIN rs : rs[i] = rs[j] => i = j }

\* A deterministic backend: the same responses in the same order, the same
\* DOM and the same cookies whenever the page is loaded; nothing fails. What
\* is left open is the timing of the body reads against the runner's steps.
Backends ==
    { [responses |-> rs, dom |-> d, cookies |-> c] :
        rs \in ResponseSeqs, d \in DomCandidates, c \in CookieJars }

\* What LaunchMPVWithHeaders keeps of a header set: the values found for
\* User-Agent, Origin and Referer.
Normalized(h) == [d \in MinimalNames |-> lookupHeaderValue(h, LookupName(d))]

IdemExtractStart ==
    /\ run \in {1, 2}
    /\ ExtractStart
    /\ TrimSpace(embedURL) # "" => epc' = "running"

IdemRunnerLaunch ==
    /\ run \in {1, 2}
    /\ RunnerLaunch
    /\ exitCode' = exitCode

IdemRunnerPageSetup ==
    /\ run \in {1, 2}
    /\ RunnerPageSetup
    /\ exitCode' = exitCode

IdemRunnerNavigated ==
    /\ run \in {1, 2}
    /\ RunnerNavigatedTraced
    /\ Navigable(embedURL) => navErr' = "ok"

\* The next response of the backend reaches the listener.
IdemResponseEvent ==
    /\ run \in {1, 2}
    /\ arrivals < Len(backend.responses)
    /\ ResponseEvent
    /\ LET r == backend.responses[arrivals + 1]
       IN  pending' = IF ListenerAccepts(r)
                      THEN pending \cup {[id |-> arrivals + 1, res |-> r]}
                      ELSE pending

IdemBodyRead ==
    /\ run \in {1, 2}
    /\ BodyRead
    /\ \A h \in handled' \ handled : h.ok

IdemWaitCaptured == run \in {1, 2} /\ RunnerWaitCaptured

\* The backend answers well within the 20 s of the capture wait: the timer
\* wins only when every response has arrived and has been handled.
IdemWaitTimeout ==
    /\ run \in {1, 2}
    /\ arrivals = Len(backend.responses) \/ ~Navigable(embedURL)
    /\ pending = {}
    /\ RunnerWaitTimeout

IdemRunnerDomEvaluated ==
    /\ run \in {1, 2}
    /\ RunnerDomEvaluated
    /\ exitCode' = exitCode
    /\ LET candidate == IF Navigable(embedURL) THEN backend.dom ELSE EmptyURL
       IN  captured' = IF DomAccepts(candidate)
                       THEN Capture(candidate, NoHeaders, FALSE) ELSE captured

IdemRunnerCookies ==
    /\ run \in {1, 2}
    /\ RunnerCookies
    /\ captured' = Enrich(captured, backend.cookies, embedURL)

IdemRunnerClosed ==
    /\ run \in {1, 2}
    /\ RunnerClosed
    /\ exitCode' = 0

IdemExtractReturn == run \in {1, 2} /\ ExtractReturn

\* The first call of extractM3U8Lite has returned; the same embed URL is
\* resolved again by a fresh runner process.
ResolveAgain ==
    /\ run = 1
    /\ epc = "returned"
    /\ run' = 2
    /\ first' = [url |-> resURL, headers |-> resHeaders, err |-> resErr]
    /\ epc' = "called"
    /\ extractCalls' = extractCalls + 1
    /\ resURL' = EmptyURL
    /\ resHeaders' = NoHeaders
    /\ resErr' = "none"
    /\ rpc' = "idle"
    /\ browser' = "none"
    /\ captured' = Null
    /\ resolved' = FALSE
    /\ pending' = {}
    /\ arrivals' = 0
    /\ exitCode' = -1
    /\ stdout' = Null
    /\ seen' = {}
    /\ handled' = {}
    /\ waitEnd' = "unset"
    /\ domEvals' = 0
    /\ navErr' = "unset"
    /\ UNCHANGED <<backend, runnerPath, cpc, embedURL, cliErr, launchVars, tuiVars,
                   auxVars>>

IdemInit ==
    /\ LaunchIdle
    /\ RunnerIdle
    /\ epc = "called"
    /\ extractCalls = 1
    /\ resURL = EmptyURL
    /\ resHeaders = NoHeaders
    /\ resErr = "none"
    /\ runnerPath = "none"
    /\ cliErr = "none"
    /\ cpc = "idle"
    /\ embedURL \in EmbedURLs
    /\ run = 1
    /\ backend \in Backends
    /\ first = NoResult
    /\ TUIIdle
    /\ AuxIdle

IdemNext ==
    \/ IdemExtractStart \/ IdemRunnerLaunch \/ IdemRunnerPageSetup
    \/ IdemRunnerNavigated \/ IdemResponseEvent \/ IdemBodyRead
    \/ IdemWaitCaptured \/ IdemWaitTimeout \/ IdemRunnerDomEvaluated
    \/ IdemRunnerCookies \/ IdemRunnerClosed \/ IdemExtractReturn
    \/ ResolveAgain

SpecTwice == IdemInit /\ [][IdemNext]_vars

\* C16: the second resolution of the same embed URL against the same backend
\* returns what the first returned: the same error or the same playlist URL
\* with the same normalized header set.
C16_RepeatedResolutionSameResult ==
    (run = 2 /\ epc = "returned") =>
        /\ resErr = first.err
        /\ resURL = first.url
        /\ Normalized(resHeaders) = Normalized(first.headers)

-----------------------------------------------------------------------------
(* The terminal UI: Model.Update, its commands and the debug log (app.go) *)

MaxStreams == 2
MaxCmds == 3
MaxExtractions == 1
MaxSinkLines == 1

\* if len(m.debugLines) > 200 { m.debugLines = m.debugLines[len(m.debugLines)-200:] }
DebugCap == 200

pipelineVars == <<launchVars, runnerVars, goVars, idemVars, auxVars>>

\* The same without Model.lastError.
backVars == <<launchVars, runnerVars, goVars, idemVars, cancel, derive, cache, inst,
              static, column>>

focusSports == 0
focusMatches == 1
focusStreams == 2

\* The streams the API can return for a match.
Stream(src, e) == [source |-> src, embed |-> e, none |-> FALSE]

StreamUniverse ==
    { Stream("alpha", "https://embed.example/e/1"),
      Stream("alpha", ""),
      Stream("admin", ""),
      Stream("Admin", "https://embed.example/e/2") }

\* The streams of one match are distinct.
StreamLists ==
    { list \in UNION { [1..n -> StreamUniverse] : n \in 0..MaxStreams } :
        \A i, j \in 1..Len(list) : list[i] = list[j] => i = j }

SportLists == { << >> }

MatchLists == { << >>, << "m1" >> }

\* strings.EqualFold(st.Source, "admin") in the Enter case of Update
IsAdminSource_CaseSensitive(src) == src = "admin"

IsAdminSource(src) == EqualFold(src, "admin")

RegularStream(st) == ~EqualFold(st.source, "admin")

AdminStream(st) == EqualFold(st.source, "admin")

\* reorderStreams: the regular streams, then the admin streams
reorderStreams_AdminFirst(list) ==
    IF Len(list) = 0 THEN list
    ELSE SelectSeq(list, AdminStream) \o SelectSeq(list, RegularStream)

reorderStreams(list) ==
    IF Len(list) = 0 THEN list
    ELSE SelectSeq(list, RegularStream) \o SelectSeq(list, AdminStream)

\* prependPopularSport: the API's list has no sport named popular
prependPopularSport(list) == << "popular" >> \o list

\* ListColumn (columns.go)
SetItems(items) == [items |-> items, selected |-> 0]

CursorUp(c) == [c EXCEPT !.selected = IF @ > 0 THEN @ - 1 ELSE @]

CursorDown(c) == [c EXCEPT !.selected = IF @ < Len(c.items) - 1 THEN @ + 1 ELSE @]

HasSelected(c) == Len(c.items) # 0

Selected(c) == c.items[c.selected + 1]

\* A log line: its text, the extraction it is about (0: none) and its number
\* in the order of arrival at the log it was appended to.
Line(text, of, seq) == [text |-> text, of |-> of, seq |-> seq]

\* len(m.debugLines)
LogLen(log) == log.earlier + Len(log.recent)

\* append(m.debugLines, line)
AppendUncapped(log, total, text, of) ==
    [log EXCEPT !.recent = Append(@, Line(text, of, total + 1))]

\* m.debugLines = m.debugLines[len(m.debugLines)-200:] when longer than 200:
\* the oldest lines go first.
Cap(log) ==
    LET excess == LogLen(log) - DebugCap
    IN  IF excess <= 0 THEN log
        ELSE IF excess <= log.earlier THEN [log EXCEPT !.earlier = @ - excess]
        ELSE [earlier |-> 0,
              recent |-> SubSeq(log.recent, excess - log.earlier + 1, Len(log.recent))]

\* append and cap: case debugLogMsg of Update, and logcb of runExtractor
AppendCapped(log, total, text, of) == Cap(AppendUncapped(log, total, text, of))

\* The model Update returns and the copy the closure holds are slices over one
\* backing array until an append of either reallocates. A line one of them
\* writes to a slot the other also covers may show in the other: the two
\* goroutines race on the slot, and either write can be the one that stays.
Replace(log, ls) ==
    LET old == log.recent
    IN  [log EXCEPT !.recent =
            [i \in DOMAIN old |->
                IF \E l \in ls : l.seq = old[i].seq
                THEN CHOOSE l \in ls : l.seq = old[i].seq
                ELSE old[i]]]

Landings(log, ls) == { Replace(log, sub) : sub \in SUBSET ls }

\* The lines the closure appended in taking e to e2.
Written(e, e2) ==
    { e2.lines.recent[i] : i \in { j \in DOMAIN e2.lines.recent :
                                       e2.lines.recent[j].seq > e.total } }

\* The closure is running: its copy of the log is still in use.
Live(e) == e.pc \in {"start", "extracting"}

\* logcb(line) inside the closure e
logcb(e, text) ==
    [e EXCEPT !.lines = AppendCapped(e.lines, e.total, text, e.id),
              !.total = @ + 1,
              !.emitted = @ \cup {text}]

\* func(line string) { m.debugLines = append(m.debugLines, line) }
sink(e, text) ==
    [e EXCEPT !.lines = AppendUncapped(e.lines, e.total, text, e.id),
              !.total = @ + 1,
              !.emitted = @ \cup {text}]

\* The lines extractM3U8Lite writes to its sink while the runner runs.
SinkText(n) ==
    IF n = 1 THEN "[puppeteer] launching chromium stealth runner"
    ELSE "[puppeteer stderr] line"

\* A command Update returned: text is the line of a logToUI command and the
\* match captured by the closure of fetchStreamsForMatch.
Cmd(id, kind, text, of) == [id |-> id, kind |-> kind, text |-> text, of |-> of]

\* The closure runExtractor returns: the stream, and the copy of the model
\* (value receiver) with the log as it was when Update called runExtractor.
NewExtraction(id, st) ==
    [id |-> id, st |-> st, lines |-> debugLines, total |-> logTotal,
     pc |-> "start", sunk |-> 0, emitted |-> {}, msg |-> "", mpv |-> FALSE]

\* The stream highlighted in the streams column, when that column has the
\* focus in the main view.
Highlighted ==
    IF currentView = "main" /\ focus = focusStreams /\ HasSelected(streams)
    THEN Selected(streams) ELSE NoStream

\* The keys that act on the highlighted stream.
StreamKeys == {"enter", "o", "p"}

\* A key message was handled; opened is the argument of openBrowser, if called.
\* Only the keys that act on a stream are recorded.
Pressed(k, opened) ==
    lastKey' = IF k \in StreamKeys THEN [key |-> k, opened |-> opened] ELSE NoKey

\* case debugLogMsg of Update, with the closures exts running beside it
UpdateDebugLog(text, of, exts) ==
    /\ debugLines' = AppendCapped(debugLines, logTotal, text, of)
    /\ logTotal' = logTotal + 1
    /\ \E hit \in SUBSET { e \in exts : Live(e) } :
        extractions' =
            { IF e \in hit
              THEN [e EXCEPT !.lines = Replace(@, {Line(text, of, logTotal + 1)})]
              ELSE e : e \in exts }

\* case msg.String() == "esc"
KeyEsc ==
    /\ ~quit
    /\ Pressed("esc", "")
    /\ currentView' = "main"
    /\ UNCHANGED <<focus, sports, matches, streams, debugLines, logTotal, cmds,
                   cmdCount, extractions, quit, pipelineVars>>

KeyHelp_OnlyShows ==
    /\ ~quit
    /\ Pressed("?", "")
    /\ currentView' = "help"
    /\ UNCHANGED <<focus, sports, matches, streams, debugLines, logTotal, cmds,
                   cmdCount, extractions, quit, pipelineVars>>

\* case key.Matches(msg, m.keys.Help)
KeyHelp ==
    /\ ~quit
    /\ Pressed("?", "")
    /\ currentView' = IF currentView = "help" THEN "main" ELSE "help"
    /\ UNCHANGED <<focus, sports, matches, streams, debugLines, logTotal, cmds,
                   cmdCount, extractions, quit, pipelineVars>>

\* case key.Matches(msg, m.keys.Quit)
KeyQuit ==
    /\ ~quit
    /\ Pressed("q", "")
    /\ quit' = (currentView = "main")
    /\ UNCHANGED <<focus, currentView, sports, matches, streams, debugLines,
                   logTotal, cmds, cmdCount, extractions, pipelineVars>>

\* case key.Matches(msg, m.keys.Left) and m.keys.Right
KeyLeftRight ==
    /\ ~quit
    /\ \E k \in {"left", "right"} :
        /\ Pressed(k, "")
        /\ focus' = IF currentView # "main" THEN focus
                    ELSE IF k = "left" /\ focus > focusSports THEN focus - 1
                    ELSE IF k = "right" /\ focus < focusStreams THEN focus + 1
                    ELSE focus
    /\ UNCHANGED <<currentView, sports, matches, streams, debugLines, logTotal,
                   cmds, cmdCount, extractions, quit, pipelineVars>>

\* case key.Matches(msg, m.keys.Up) and m.keys.Down
KeyUpDown ==
    /\ ~quit
    /\ \E k \in {"up", "down"} :
        /\ Pressed(k, "")
        /\ LET move(c) == IF k = "up" THEN CursorUp(c) ELSE CursorDown(c)
               main == currentView = "main"
           IN  /\ sports'  = IF main /\ focus = focusSports  THEN move(sports)  ELSE sports
               /\ matches' = IF main /\ focus = focusMatches THEN move(matches) ELSE matches
               /\ streams' = IF main /\ focus = focusStreams THEN move(streams) ELSE streams
    /\ UNCHANGED <<focus, currentView, debugLines, logTotal, cmds, cmdCount,
                   extractions, quit, pipelineVars>>

\* if st.EmbedURL != "" { _ = openBrowser(st.EmbedURL); m.lastError = nil; ... }
Opened(embed, err) == IF embed # "" THEN FALSE ELSE err

\* case key.Matches(msg, m.keys.Enter)
KeyEnter ==
    /\ ~quit
    /\ UNCHANGED <<focus, currentView, sports, matches, debugLines, logTotal, quit,
                   backVars>>
    /\ IF currentView = "main" /\ focus = focusSports /\ HasSelected(sports)
       THEN /\ cmdCount < MaxCmds
            /\ lastError' = FALSE
            /\ streams' = SetItems(<< >>)
            /\ cmds' = cmds \cup {Cmd(cmdCount + 1, "fetchMatchesForSport", "", 0)}
            /\ cmdCount' = cmdCount + 1
            /\ Pressed("enter", "")
            /\ UNCHANGED extractions
       ELSE IF currentView = "main" /\ focus = focusMatches /\ HasSelected(matches)
       THEN /\ cmdCount < MaxCmds
            /\ lastError' = FALSE
            /\ cmds' = cmds \cup {Cmd(cmdCount + 1, "fetchStreamsForMatch",
                                       Selected(matches), 0)}
            /\ cmdCount' = cmdCount + 1
            /\ Pressed("enter", "")
            /\ UNCHANGED <<streams, extractions>>
       ELSE IF currentView = "main" /\ focus = focusStreams /\ HasSelected(streams)
       THEN LET st == Selected(streams)
                id == Cardinality(extractions) + 1
            IN  IF IsAdminSource(st.source)
                THEN /\ Pressed("enter", st.embed)
                     /\ lastError' = Opened(st.embed, lastError)
                     /\ UNCHANGED <<streams, cmds, cmdCount, extractions>>
                ELSE /\ id <= MaxExtractions
                     /\ cmds' = cmds \cup {Cmd(0, "logToUI", "Attempting extractor", id)}
                     /\ extractions' = extractions \cup {NewExtraction(id, st)}
                     /\ Pressed("enter", "")
                     /\ UNCHANGED <<streams, cmdCount, lastError>>
       ELSE /\ Pressed("enter", "")
            /\ UNCHANGED <<streams, cmds, cmdCount, extractions, lastError>>

\* case key.Matches(msg, m.keys.OpenBrowser)
KeyOpenBrowser ==
    /\ ~quit
    /\ LET embed == IF currentView = "main" /\ focus = focusStreams /\ HasSelected(streams)
                    THEN Selected(streams).embed ELSE ""
       IN  /\ Pressed("o", embed)
           /\ lastError' = Opened(embed, lastError)
    /\ UNCHANGED <<focus, currentView, sports, matches, streams, debugLines,
                   logTotal, cmds, cmdCount, extractions, quit, backVars>>

\* The keys bound by defaultKeys that no case of Update matches: OpenMPV (p)
\* and Refresh (r). Update falls through to `return m, nil`.
KeyUnhandled ==
    /\ ~quit
    /\ \E k \in {"p", "r"} : Pressed(k, "")
    /\ UNCHANGED <<focus, currentView, sports, matches, streams, debugLines,
                   logTotal, cmds, cmdCount, extractions, quit, pipelineVars>>

\* m.lastError = nil in the cases of the loaded messages, m.lastError = msg
\* in case errorMsg
Loaded(ok) == ~ok

\* fetchSports returns; case sportsLoadedMsg or errorMsg of Update.
SportsLoaded ==
    /\ ~quit
    /\ lastKey' = NoKey
    /\ \E c \in cmds :
        /\ c.kind = "fetchSports"
        /\ cmds' = cmds \ {c}
        /\ \E ok \in BOOLEAN :
            /\ lastError' = Loaded(ok)
            /\ IF ok THEN \E list \in SportLists :
                            sports' = SetItems(prependPopularSport(list))
               ELSE UNCHANGED sports
    /\ UNCHANGED <<focus, currentView, matches, streams, debugLines, logTotal,
                   cmdCount, extractions, quit, backVars>>

\* fetchPopularMatches or fetchMatchesForSport returns; case matchesLoadedMsg
\* or errorMsg of Update.
MatchesLoaded ==
    /\ ~quit
    /\ lastKey' = NoKey
    /\ \E c \in cmds :
        /\ c.kind \in {"fetchPopularMatches", "fetchMatchesForSport"}
        /\ cmds' = cmds \ {c}
        /\ \E ok \in BOOLEAN :
            /\ lastError' = Loaded(ok)
            /\ IF ok THEN \E list \in MatchLists : matches' = SetItems(list)
               ELSE UNCHANGED matches
    /\ UNCHANGED <<focus, currentView, sports, streams, debugLines, logTotal,
                   cmdCount, extractions, quit, backVars>>

\* fetchStreamsForMatch returns; case streamsLoadedMsg or errorMsg of Update.
StreamsLoaded ==
    /\ ~quit
    /\ lastKey' = NoKey
    /\ \E c \in cmds :
        /\ c.kind = "fetchStreamsForMatch"
        /\ cmds' = cmds \ {c}
        /\ \E ok \in BOOLEAN :
            /\ lastError' = Loaded(ok)
            /\ IF ok THEN \E list \in StreamLists :
                            /\ streams' = SetItems(reorderStreams(list))
                            /\ focus' = focusStreams
               ELSE UNCHANGED <<streams, focus>>
    /\ UNCHANGED <<currentView, sports, matches, debugLines, logTotal, cmdCount,
                   extractions, quit, backVars>>

\* The command of logToUI returns; case debugLogMsg of Update.
LogToUI ==
    /\ ~quit
    /\ lastKey' = NoKey
    /\ \E c \in cmds :
        /\ c.kind = "logToUI"
        /\ cmds' = cmds \ {c}
        /\ UpdateDebugLog(c.text, c.of, extractions)
    /\ UNCHANGED <<focus, currentView, sports, matches, streams, cmdCount,
                   quit, pipelineVars>>

\* The closure of runExtractor starts: the empty-URL test and the first logcb.
ExtractorBegin ==
    /\ ~quit
    /\ lastKey' = NoKey
    /\ \E e \in extractions :
        /\ e.pc = "start"
        /\ LET e2 == IF e.st.embed = ""
                     THEN [e EXCEPT !.pc = "return",
                                    !.msg = "Extractor aborted: empty embed URL"]
                     ELSE [logcb(e, "[extractor] Starting puppeteer extractor")
                              EXCEPT !.pc = "extracting"]
           IN  /\ extractions' = (extractions \ {e}) \cup {e2}
               /\ debugLines' \in Landings(debugLines, Written(e, e2))
    /\ UNCHANGED <<focus, currentView, sports, matches, streams, logTotal, cmds,
                   cmdCount, quit, pipelineVars>>

\* extractM3U8Lite writes a line to the sink it was given.
ExtractorSink ==
    /\ ~quit
    /\ lastKey' = NoKey
    /\ \E e \in extractions :
        /\ e.pc = "extracting"
        /\ e.sunk < MaxSinkLines
        /\ LET e2 == [sink(e, SinkText(e.sunk + 1)) EXCEPT !.sunk = @ + 1]
           IN  /\ extractions' = (extractions \ {e}) \cup {e2}
               /\ debugLines' \in Landings(debugLines, Written(e, e2))
    /\ UNCHANGED <<focus, currentView, sports, matches, streams, logTotal, cmds,
                   cmdCount, quit, pipelineVars>>

\* extractM3U8Lite returns an error: before the runner was launched, or
\* after it, with or without a line about the error written to the sink.
ExtractorFailed ==
    /\ ~quit
    /\ lastKey' = NoKey
    /\ \E e \in extractions, reported \in BOOLEAN :
        /\ e.pc = "extracting"
        /\ reported => e.sunk >= 1
        /\ LET e1 == IF reported THEN sink(e, "[puppeteer] runner error") ELSE e
               e2 == [logcb(e1, "[extractor] failed") EXCEPT
                         !.pc = "return", !.msg = "Extractor failed"]
           IN  /\ extractions' = (extractions \ {e}) \cup {e2}
               /\ debugLines' \in Landings(debugLines, Written(e, e2))
    /\ UNCHANGED <<focus, currentView, sports, matches, streams, logTotal, cmds,
                   cmdCount, quit, pipelineVars>>

\* extractM3U8Lite, having launched the runner, returns a playlist;
\* LaunchMPVWithHeaders(m3u8, hdrs, logcb, false) starts the player or fails to.
ExtractorFound ==
    /\ ~quit
    /\ lastKey' = NoKey
    /\ \E e \in extractions, hasHdrs \in BOOLEAN, mpvStarted \in BOOLEAN :
        /\ e.pc = "extracting"
        /\ e.sunk >= 1
        /\ LET e1 == sink(e, "[puppeteer] found .m3u8")
               e2 == logcb(e1, "[extractor] Found M3U8")
               e3 == IF hasHdrs THEN logcb(e2, "[extractor] Captured headers") ELSE e2
               e4 == logcb(e3, "[mpv] launching")
               e5 == IF mpvStarted
                     THEN logcb(logcb(e4, "[mpv] started (pid)"), "[mpv] Streaming started")
                     ELSE logcb(logcb(e4, "[mpv] launch error"), "[mpv] failed")
               e6 == [e5 EXCEPT !.pc = "return",
                                !.mpv = mpvStarted,
                                !.msg = IF mpvStarted
                                        THEN "Extractor completed successfully"
                                        ELSE "MPV error"]
           IN  /\ extractions' = (extractions \ {e}) \cup {e6}
               /\ debugLines' \in Landings(debugLines, Written(e, e6))
    /\ UNCHANGED <<focus, currentView, sports, matches, streams, logTotal, cmds,
                   cmdCount, quit, pipelineVars>>

\* The closure returns its debugLogMsg; case debugLogMsg of Update.
ExtractorReturned ==
    /\ ~quit
    /\ lastKey' = NoKey
    /\ \E e \in extractions :
        /\ e.pc = "return"
        /\ UpdateDebugLog(e.msg, e.id,
                          (extractions \ {e}) \cup { [e EXCEPT !.pc = "done"] })
    /\ UNCHANGED <<focus, currentView, sports, matches, streams, cmds, cmdCount,
                   quit, pipelineVars>>

\* New(debug), Init(): a program just started, with its two fetch commands.
TUIFresh ==
    /\ \E debug \in BOOLEAN :
        /\ debugLines = IF debug
                        THEN [earlier |-> 0,
                              recent |-> << Line("(debug logging enabled)", 0, 1) >>]
                        ELSE EmptyLog
        /\ logTotal = IF debug THEN 1 ELSE 0
    /\ focus = focusSports
    /\ sports = EmptyColumn
    /\ matches = EmptyColumn
    /\ streams = EmptyColumn
    /\ cmds = {Cmd(1, "fetchSports", "", 0), Cmd(2, "fetchPopularMatches", "", 0)}
    /\ cmdCount = 2

\* A program that has been used for a while: the lists are loaded, the last
\* streamsLoadedMsg left the focus on the streams, the fetch commands this
\* run follows have all returned and earlier extractions have brought the log
\* to its cap or one line below it.
TUIUsed ==
    /\ \E n \in {DebugCap - 1, DebugCap} :
        /\ debugLines = [earlier |-> n, recent |-> << >>]
        /\ logTotal = n
    /\ focus = focusStreams
    /\ \E list \in SportLists : sports = SetItems(prependPopularSport(list))
    /\ matches = SetItems(<< "m1" >>)
    /\ \E list \in StreamLists : streams = SetItems(reorderStreams(list))
    /\ cmds = {}
    /\ cmdCount = MaxCmds

TUIInit ==
    /\ LaunchIdle
    /\ RunnerIdle
    /\ GoIdle
    /\ IdemIdle
    /\ AuxIdle
    /\ cpc = "idle"
    /\ embedURL = ""
    /\ currentView = "main"
    /\ extractions = {}
    /\ lastKey = NoKey
    /\ quit = FALSE
    /\ TUIFresh \/ TUIUsed

TUINext ==
    \/ KeyEsc \/ KeyHelp \/ KeyQuit \/ KeyLeftRight \/ KeyUpDown \/ KeyEnter
    \/ KeyOpenBrowser \/ KeyUnhandled
    \/ SportsLoaded \/ MatchesLoaded \/ StreamsLoaded \/ LogToUI
    \/ ExtractorBegin \/ ExtractorSink \/ ExtractorFailed \/ ExtractorFound
    \/ ExtractorReturned

SpecTUI == TUIInit /\ [][TUINext]_vars

\* The key and load messages alone: every sequence of them, with the commands
\* Update returns started and left unfinished.
KeysNext ==
    \/ KeyEsc \/ KeyHelp \/ KeyQuit \/ KeyLeftRight \/ KeyUpDown \/ KeyEnter
    \/ KeyOpenBrowser \/ KeyUnhandled
    \/ SportsLoaded \/ MatchesLoaded \/ StreamsLoaded

SpecKeys == TUIInit /\ [][KeysNext]_vars


\* C17: a stream whose source is admin in any letter case is never handed to
\* the extractor or to mpv: no extraction is ever about such a stream, and
\* Enter on a highlighted admin stream calls openBrowser with its embed URL
\* exactly when that URL is not empty.
C17_AdminNeverExtracted ==
    /\ \A e \in extractions : ~EqualFold(e.st.source, "admin")
    /\ (/\ lastKey.key = "enter"
        /\ Highlighted # NoStream
        /\ EqualFold(Highlighted.source, "admin"))
       => lastKey.opened = Highlighted.embed

\* Enter was pressed on the highlighted stream "Admin": the browser was
\* opened on its embed URL and no extraction exists.
C17_Witness ==
    /\ lastKey.key = "enter"
    /\ Highlighted # NoStream
    /\ Highlighted.source = "Admin"
    /\ lastKey.opened = Highlighted.embed
    /\ lastKey.opened # ""
    /\ extractions = {}

\* C18: when p has just been pressed with a stream that is not an admin
\* stream highlighted in the streams column of the main view, an extraction
\* of that stream has been started, as Enter would have started it.
C18_PStartsExtractor ==
    (/\ lastKey.key = "p"
     /\ Highlighted # NoStream
     /\ ~EqualFold(Highlighted.source, "admin"))
    => \E e \in extractions : e.st = Highlighted /\ e.pc = "start"

\* The lines of extraction e that the log of the running model holds.
Shown(e) ==
    { debugLines.recent[i].text :
        i \in { j \in DOMAIN debugLines.recent : debugLines.recent[j].of = e.id } }

\* C19: once an extraction started from the UI has finished, every line the
\* extractor and the player launcher emitted during it is in the debug log
\* of the running model.
C19_EmittedLinesInDebugLog ==
    \A e \in extractions : e.pc = "done" => e.emitted \subseteq Shown(e)

\* A log of at most DebugCap lines, numbered in the order of their arrival
\* up to the last one appended: only the oldest are missing.
LogOK(log, total) ==
    /\ LogLen(log) <= DebugCap
    /\ LogLen(log) <= total
    /\ \A i \in DOMAIN log.recent : log.recent[i].seq = total - Len(log.recent) + i

\* C20: after every Update step and every call of the sink, the log written
\* to holds at most 200 lines, in the order of their arrival, the oldest
\* dropped first.
C20_LogCappedAndOrdered ==
    /\ LogOK(debugLines, logTotal)
    /\ \A e \in extractions : LogOK(e.lines, e.total)

-----------------------------------------------------------------------------
(* Properties of handleM3U8Response and of the capture slot *)

\* The nested playlist reference of a body: its first line that is neither
\* blank nor a comment and holds '.m3u8' (in any letter case); NoRef if none.
RECURSIVE NestedLine(_)
NestedLine(body) ==
    IF body = << >> THEN NoRef
    ELSE IF Head(body).kind = "uri" /\ LineHasM3U8(Head(body).ref) THEN Head(body).ref
    ELSE NestedLine(Tail(body))

\* The directory of a URL: its path without the last segment.
BaseDir(u) == SubSeq(u.path, 1, Len(u.path) - 1)

\* A reference resolved against the URL of the response that held it.
Resolution(r, base) ==
    IF r.abs THEN [host |-> r.host, path |-> RemoveDots(r.path, << >>)]
    ELSE [host |-> base.host, path |-> RemoveDots(BaseDir(base) \o r.path, << >>)]

\* The line of a reference as it is written in the body.
AsWritten(r) == [host |-> r.host, path |-> r.path]

\* u is the final URL the claim gives the response res: its own URL with the
\* leaf-segment marker or without a reference, else the reference resolved;
\* a reference that is no URL has no resolution unless asWritten is allowed.
IsFinalOf(u, res, asWritten) ==
    LET r == NestedLine(res.body)
    IN  IF SegmentMarked(res) \/ r = NoRef THEN u = res.url
        ELSE IF r.bad THEN asWritten /\ u = AsWritten(r)
        ELSE u = Resolution(r, res.url)

\* C21 as stated: a capture recorded for a response whose body was read has
\* the response's own URL when the body holds the leaf-segment marker, and
\* otherwise the nested reference resolved against the response's URL.
C21_NestedResolved ==
    [][\A h \in handled' \ handled :
          (h.ok /\ captured' # captured) => IsFinalOf(captured'.url, h.res, FALSE)]_vars

\* C21 amended: the same, and a reference that cannot be parsed as a URL is
\* taken as it is written.
C21_NestedResolvedOrAsWritten ==
    [][\A h \in handled' \ handled :
          (h.ok /\ captured' # captured) => IsFinalOf(captured'.url, h.res, TRUE)]_vars

\* The master playlist was read and the capture is the playlist it refers to.
C21_Witness ==
    /\ seen = {Response(MasterURL, MasterBody, FullHeaders)}
    /\ \E h \in handled : h.ok
    /\ ~captured.null
    /\ captured.url = LeafURL
    /\ captured.url # MasterURL
    /\ ~captured.hasExtinf

-----------------------------------------------------------------------------
(* The caller of extractM3U8Lite gives up while the resolution waits *)

\* The positions of the runner at which the resolution waits: page.goto and
\* the race of capturePromise against the 20 s timer.
WaitPoints == {"goto", "race"}

\* The caller gives up. extractM3U8Lite(embedURL, log) has no parameter that
\* could carry the signal, the node process is started with exec.Command and
\* waited for with cmd.Run, and the runner script reads no signal: nothing of
\* the resolution changes.
CallerCancels ==
    /\ epc = "running"
    /\ rpc \in WaitPoints
    /\ cancel = "none"
    /\ cancel' = rpc
    /\ UNCHANGED <<launchVars, runnerVars, goVars, idemVars, tuiVars, derive, cache, inst,
                   static, viewVars>>

\* One resolution whose caller may give up at a wait point.
CancelNext ==
    \/ CLIStart \/ ExtractStart
    \/ RunnerLaunch \/ RunnerPageSetup \/ RunnerNavigated \/ ResponseEvent
    \/ BodyRead \/ RunnerWaitCaptured \/ RunnerWaitTimeout \/ RunnerDomEvaluated
    \/ RunnerCookies \/ RunnerClosed
    \/ ExtractReturn
    \/ CallerCancels

SpecCancel == Init /\ [][CancelNext]_vars

\* C22: once the caller has given up at a wait point, the resolver returns a
\* dedicated cancellation error and the browser session has been torn down.
C22_CancelAborts ==
    (cancel # "none" /\ epc = "returned")
        => (resErr = "cancelled" /\ browser # "open")

\* The resolution of a caller who gave up runs on and returns a playlist.
C22_CancelIgnored ==
    /\ cancel = "race"
    /\ epc = "returned"
    /\ resErr = "nil"
    /\ resURL # EmptyURL

-----------------------------------------------------------------------------
(* The errors RunExtractorCLI returns *)

\* The messages of an error value, outermost first, as the return statement
\* that produced it built them: errors.New and fmt.Errorf without %w give one
\* message of the orchestrator's own, fmt.Errorf("...: %w", err) puts a message
\* in front of the cause, and `return err` passes the cause on as it is.
ErrorChain(e) ==
    CASE e = "missing embed URL" -> << "missing embed URL" >>
      [] e = "empty embed URL" -> << "empty embed URL" >>
      [] e = "puppeteer-extra not found" -> << "puppeteer-extra not found" >>
      [] e = "puppeteer-extra or stealth plugin missing" ->
            << "puppeteer-extra or stealth plugin missing", "os: stat" >>
      [] e = "write runner failed" -> << "os: write file" >>
      [] e = "puppeteer runner failed" ->
            << "puppeteer runner failed", "exec: exit status" >>
      [] e = "m3u8 not found" -> << "m3u8 not found" >>
      [] e = "empty m3u8 URL" -> << "empty m3u8 URL" >>
      [] e = "start error" -> << "exec: start" >>
      [] e = "exit error" -> << "exec: exit status" >>
      [] OTHER -> << >>

\* Messages made by the packages os and os/exec, which know nothing of the
\* stage that called them.
LibraryMessages == {"os: stat", "os: write file", "exec: start", "exec: exit status"}

\* The error's outermost message was written by the orchestrator.
Wrapped(e) ==
    /\ ErrorChain(e) # << >>
    /\ Head(ErrorChain(e)) \notin LibraryMessages

\* C23: every failure RunExtractorCLI returns carries, as its outermost
\* message, text of the stage that failed.
C23_FailuresNameStage ==
    (cpc = "returned" /\ cliErr \notin {"none", "nil"}) => Wrapped(cliErr)

\* mpv was started for a resolved playlist, exited with a non-zero status, and
\* RunExtractorCLI returned the bare exit error of os/exec.
C23_BareExitError ==
    /\ cpc = "returned"
    /\ cliErr = "exit error"
    /\ resErr = "nil"
    /\ ErrorChain(cliErr) = << "exec: exit status" >>

-----------------------------------------------------------------------------
(* deriveHeaders *)

\* The text of an embed argument, by its parts: scheme "://" host path, or
\* host path alone when there is no scheme; bad says that the path holds an
\* invalid percent escape such as %zz.
EmbedText(scheme, host, path, bad) ==
    [scheme |-> scheme, host |-> host, path |-> path, bad |-> bad]

\* The empty string.
EmptyText == EmbedText("", "", "", FALSE)

DeriveSchemes == {"", "http", "https"}

DeriveHosts == {"embedsports.top", "www.embedsports.top", "embedsports.evil.example",
                "other.example", "cdn.example", "127.0.0.1:8080"}

DerivePaths == {"", "/embed/alpha/1"}

EmbedTexts ==
    {EmptyText} \cup
    {EmbedText(s, h, p, b) : s \in DeriveSchemes, h \in DeriveHosts,
                             p \in DerivePaths, b \in BOOLEAN}

\* url.Parse: an invalid escape is an error; a text without a scheme is a
\* relative reference, all of it path, so that its Host is empty.
ParseURL(t) ==
    IF t.bad THEN [ok |-> FALSE, Scheme |-> "", Host |-> ""]
    ELSE IF t.scheme = "" THEN [ok |-> TRUE, Scheme |-> "", Host |-> ""]
    ELSE [ok |-> TRUE, Scheme |-> t.scheme, Host |-> t.host]

\* strings.Contains(host, "embedsports")
ContainsEmbedsports(host) ==
    host \in {"embedsports.top", "www.embedsports.top", "embedsports.evil.example"}

\* The hosts of the known provider.
ProviderHosts == {"embedsports.top", "www.embedsports.top"}

\* A formatted string, by the pieces it is put together from.
CanonicalOrigin == << "https", "://", "embedsports.top" >>

CanonicalReferer == << "https", "://", "embedsports.top", "/" >>

FirefoxUA == "Mozilla/5.0 (X11; Linux x86_64; rv:144.0) Gecko/20100101 Firefox/144.0"

NoText == << >>

\* fmt.Sprintf("https://%s", host)
HostOrigin(u) == << "https", "://", u.Host >>

\* What deriveHeaders(embed) returns.
deriveHeaders(embed) ==
    IF embed = EmptyText
    THEN [origin |-> NoText, referer |-> NoText, ua |-> "", err |-> "empty embed url"]
    ELSE IF ~ParseURL(embed).ok
    THEN [origin |-> NoText, referer |-> NoText, ua |-> "", err |-> "parse url"]
    ELSE IF ContainsEmbedsports(ParseURL(embed).Host)
    THEN [origin |-> CanonicalOrigin, referer |-> CanonicalReferer,
          ua |-> FirefoxUA, err |-> "nil"]
    ELSE [origin |-> HostOrigin(ParseURL(embed)),
          referer |-> HostOrigin(ParseURL(embed)) \o << "/" >>,
          ua |-> FirefoxUA, err |-> "nil"]

DeriveCall ==
    /\ derive.pc = "called"
    /\ derive' = [pc |-> "returned", embed |-> derive.embed,
                  out |-> deriveHeaders(derive.embed)]
    /\ UNCHANGED <<launchVars, runnerVars, goVars, idemVars, tuiVars, cancel, cache, inst,
                   static, viewVars>>

\* deriveHeaders called with any embed text.
DeriveInit ==
    /\ LaunchIdle
    /\ RunnerIdle
    /\ GoIdle
    /\ IdemIdle
    /\ TUIIdle
    /\ ViewIdle
    /\ cpc = "idle"
    /\ embedURL = ""
    /\ cancel = "none"
    /\ cache = NoCache
    /\ inst = NoInstances
    /\ static = NoStatic
    /\ \E t \in EmbedTexts : derive = [pc |-> "called", embed |-> t]

DeriveNext == DeriveCall

SpecDerive == DeriveInit /\ [][DeriveNext]_vars

\* C24: deriveHeaders fails for an empty or unparsable embed text and only
\* then; for a host of the known provider it returns the canonical origin and
\* referer; for every other text it returns the text's own scheme, "://" and
\* host as origin and that followed by "/" as referer; the user agent of every
\* successful call is the one fixed string.
C24_DeriveHeaders ==
    derive.pc = "returned" =>
        LET t == derive.embed
            o == derive.out
        IN  /\ (o.err # "nil") <=> (t = EmptyText \/ t.bad)
            /\ o.err = "nil" => o.ua = FirefoxUA
            /\ (o.err = "nil" /\ t.scheme # "" /\ t.host \in ProviderHosts) =>
                    /\ o.origin = CanonicalOrigin
                    /\ o.referer = CanonicalReferer
            /\ (o.err = "nil" /\ ~(t.scheme # "" /\ t.host \in ProviderHosts)) =>
                    /\ o.origin = << t.scheme, "://", IF t.scheme = "" THEN "" ELSE t.host >>
                    /\ o.referer = o.origin \o << "/" >>

\* An embed page served over plain http on another host got an https origin.
C24_HttpBecomesHttps ==
    /\ derive.pc = "returned"
    /\ derive.embed = EmbedText("http", "other.example", "/embed/alpha/1", FALSE)
    /\ derive.out.err = "nil"
    /\ derive.out.origin = << "https", "://", "other.example" >>

-----------------------------------------------------------------------------
(* ensureEmbeddedNodeModules, run by two instances of the program at once *)

\* Number of regular-file entries of the embedded archive.
MaxEntries == 2

Entries == 1 .. MaxEntries

\* The instances of the program that share the user's cache directory.
Instances == {1, 2}

\* The cache directory after a completed extraction.
CompleteCache == [dir |-> TRUE, files |-> Entries, marker |-> TRUE]

\* What an earlier run can have left on disk: nothing, a completed
\* extraction, or an extraction that was interrupted before the marker.
CacheStates ==
    {NoCache, CompleteCache} \cup
    {[dir |-> TRUE, files |-> f, marker |-> FALSE] : f \in SUBSET Entries}

At(i, pc) == inst[i].pc = pc

Goto(i, pc) == inst' = [inst EXCEPT ![i].pc = pc]

Return(i, err) == inst' = [inst EXCEPT ![i].pc = "returned", ![i].err = err]

\* if _, err := os.Stat(marker); err == nil { return baseDir, nil }
EnsureStat(i) ==
    /\ At(i, "stat")
    /\ IF cache.marker THEN Return(i, "nil") ELSE Goto(i, "removeAll")
    /\ UNCHANGED cache

\* os.RemoveAll(baseDir)
EnsureRemoveAll(i) ==
    /\ At(i, "removeAll")
    /\ \/ cache' = NoCache /\ Goto(i, "mkdirAll")
       \/ UNCHANGED cache /\ Return(i, "failed to clear embedded node cache")

\* os.MkdirAll(baseDir, 0o755)
EnsureMkdirAll(i) ==
    /\ At(i, "mkdirAll")
    /\ \/ /\ cache' = [cache EXCEPT !.dir = TRUE]
          /\ inst' = [inst EXCEPT ![i].pc = "untar", ![i].next = 1]
       \/ UNCHANGED cache /\ Return(i, "failed to create embedded node cache")

\* One turn of the loop of untarGzip on a regular file: MkdirAll of the
\* file's directory, OpenFile with O_CREATE|O_TRUNC, io.Copy, Close.
UntarEntry(i) ==
    /\ At(i, "untar")
    /\ inst[i].next <= MaxEntries
    /\ \/ /\ cache' = [cache EXCEPT !.dir = TRUE, !.files = @ \cup {inst[i].next}]
          /\ inst' = [inst EXCEPT ![i].next = @ + 1]
       \/ UNCHANGED cache /\ Return(i, "failed to extract embedded node modules")

\* tr.Next() returns io.EOF
UntarEOF(i) ==
    /\ At(i, "untar")
    /\ inst[i].next > MaxEntries
    /\ Goto(i, "writeMarker")
    /\ UNCHANGED cache

\* os.WriteFile(marker, ...): fails when baseDir is not there.
EnsureWriteMarker(i) ==
    /\ At(i, "writeMarker")
    /\ \/ /\ cache.dir
          /\ cache' = [cache EXCEPT !.marker = TRUE]
          /\ Return(i, "nil")
       \/ UNCHANGED cache /\ Return(i, "failed to mark embedded node modules ready")

\* Nothing but the cache directory and the instances changes.
CacheFrame ==
    UNCHANGED <<launchVars, runnerVars, goVars, idemVars, tuiVars, cancel, derive,
                static, viewVars>>

EnsureStatStep == \E i \in Instances : EnsureStat(i) /\ CacheFrame

EnsureRemoveAllStep == \E i \in Instances : EnsureRemoveAll(i) /\ CacheFrame

EnsureMkdirAllStep == \E i \in Instances : EnsureMkdirAll(i) /\ CacheFrame

UntarEntryStep == \E i \in Instances : UntarEntry(i) /\ CacheFrame

UntarEOFStep == \E i \in Instances : UntarEOF(i) /\ CacheFrame

EnsureWriteMarkerStep == \E i \in Instances : EnsureWriteMarker(i) /\ CacheFrame

\* Two instances call ensureEmbeddedNodeModules over whatever an earlier run
\* left in the cache directory.
CacheInit ==
    /\ LaunchIdle
    /\ RunnerIdle
    /\ GoIdle
    /\ IdemIdle
    /\ TUIIdle
    /\ ViewIdle
    /\ cpc = "idle"
    /\ embedURL = ""
    /\ cancel = "none"
    /\ derive = NoDerive
    /\ static = NoStatic
    /\ cache \in CacheStates
    /\ inst = [i \in Instances |-> [pc |-> "stat", next |-> 0, err |-> "none"]]

CacheNext ==
    \/ EnsureStatStep \/ EnsureRemoveAllStep \/ EnsureMkdirAllStep
    \/ UntarEntryStep \/ UntarEOFStep \/ EnsureWriteMarkerStep

SpecCache == CacheInit /\ [][CacheNext]_vars

\* C25: the completion marker is on disk only over the whole extracted
\* archive, and an instance that returned the directory without error left
\* the marker there, also when two instances run at the same time.
C25_MarkerGuardsExtraction ==
    cache.marker => (cache.dir /\ cache.files = Entries)

\* One instance wrote the marker after the other had cleared the directory.
C25_MarkerOverClearedCache ==
    /\ cache.marker
    /\ cache.files = {}
    /\ \E i \in Instances : inst[i].pc = "returned" /\ inst[i].err = "nil"
    /\ \E i \in Instances : inst[i].pc = "untar"

-----------------------------------------------------------------------------
(* StaticResolver: variables, token and the probe loop over the host pool *)

\* The fixed pool of candidate hosts, in its fixed order.
HostPool == << "pool-a", "pool-b", "pool-c" >>

PoolSize == Len(HostPool)

\* The literal token used when the companion script gives none.
FallbackToken == "fallback"

\* What a probe can come back with; only 200 is a success.
ProbeStatuses == {"200", "404", "timeout"}

ProbeSucceeded(status) == status = "200"

\* An embed page: which of the variables k, i, s it declares.
EmbedPages == [k : BOOLEAN, i : BOOLEAN, s : BOOLEAN]

\* A companion script: which of the three token heuristics match it.
Scripts == [securePath : BOOLEAN, base64 : BOOLEAN, reversed : BOOLEAN]

\* The heuristics in strict priority order; the first that matches wins.
ExtractToken(script) ==
    IF script.securePath THEN "token-a"
    ELSE IF script.base64 THEN "token-b"
    ELSE IF script.reversed THEN "token-c"
    ELSE ""

\* The templated URL for a host of the pool.
ProbeURL(idx, token) == [host |-> HostPool[idx], token |-> token]

NoProbeURL == [host |-> "", token |-> ""]

\* The host probed after the one at idx.
NextIndex_Skip(idx) == idx + 2

NextIndex(idx) == idx + 1

StaticDone(url, err) ==
    static' = [static EXCEPT !.pc = "returned", !.url = url, !.err = err]

\* Step 1: fetch the embed page.
StaticFetch ==
    /\ static.pc = "fetch"
    /\ \/ static' = [static EXCEPT !.pc = "vars"]
       \/ StaticDone(NoProbeURL, "FetchFailure")

\* Step 2: the variables k, i and s.
StaticParseVars ==
    /\ static.pc = "vars"
    /\ IF static.page.k /\ static.page.i /\ static.page.s
       THEN static' = [static EXCEPT !.pc = "token"]
       ELSE StaticDone(NoProbeURL, "MissingVars")

\* Step 3: the token of the companion script; without one the probe loop
\* runs with the fallback token at once.
StaticToken ==
    /\ static.pc = "token"
    /\ LET t == ExtractToken(static.script)
       IN  static' = [static EXCEPT !.pc = "probe", !.secret = t, !.idx = 1,
                                    !.token = IF t = "" THEN FallbackToken ELSE t]

\* Steps 4 and 5: one probe of the host at idx with the current token; the
\* first success is returned.
StaticProbe ==
    /\ static.pc = "probe"
    /\ static.idx <= PoolSize
    /\ \E status \in ProbeStatuses :
        LET p == [url |-> ProbeURL(static.idx, static.token), status |-> status]
        IN  IF ProbeSucceeded(status)
            THEN static' = [static EXCEPT !.pc = "returned", !.err = "nil",
                                          !.url = p.url,
                                          !.probes = Append(@, p)]
            ELSE static' = [static EXCEPT !.idx = NextIndex(@),
                                          !.probes = Append(@, p)]

\* Steps 5 and 6: every host failed; with the secret token the loop is
\* repeated with the fallback token, with the fallback token the resolution
\* fails.
StaticExhausted ==
    /\ static.pc = "probe"
    /\ static.idx > PoolSize
    /\ IF static.token # FallbackToken
       THEN static' = [static EXCEPT !.token = FallbackToken, !.idx = 1]
       ELSE StaticDone(NoProbeURL, "NoWorkingHost")

StaticFrame ==
    UNCHANGED <<launchVars, runnerVars, goVars, idemVars, tuiVars, cancel, derive,
                cache, inst, viewVars>>

StaticFetchStep == StaticFetch /\ StaticFrame

StaticParseVarsStep == StaticParseVars /\ StaticFrame

StaticTokenStep == StaticToken /\ StaticFrame

StaticProbeStep == StaticProbe /\ StaticFrame

StaticExhaustedStep == StaticExhausted /\ StaticFrame

\* StaticResolver called for any embed page and companion script.
StaticInit ==
    /\ LaunchIdle
    /\ RunnerIdle
    /\ GoIdle
    /\ IdemIdle
    /\ TUIIdle
    /\ ViewIdle
    /\ cpc = "idle"
    /\ embedURL = ""
    /\ cancel = "none"
    /\ derive = NoDerive
    /\ cache = NoCache
    /\ inst = NoInstances
    /\ \E page \in EmbedPages, script \in Scripts :
         static = [pc |-> "fetch", page |-> page, script |-> script,
                   secret |-> "", token |-> "", idx |-> 0, probes |-> << >>,
                   url |-> NoProbeURL, err |-> "none"]

StaticNext ==
    \/ StaticFetchStep \/ StaticParseVarsStep \/ StaticTokenStep
    \/ StaticProbeStep \/ StaticExhaustedStep

SpecStatic == StaticInit /\ [][StaticNext]_vars

\* The index of a host in the pool.
IndexOf(host) == CHOOSE j \in 1 .. PoolSize : HostPool[j] = host

\* The probes made with a token, in the order they were made.
ProbesWith(token) ==
    SelectSeq(static.probes, LAMBDA p : p.url.token = token)

\* The resolution returned a URL.
StaticReturnedURL == static.pc = "returned" /\ static.err = "nil"

\* C26 as stated: whenever StaticResolver returns a URL on host h, every host
\* before h in the order was probed and failed, and no host after h was
\* probed.
C26_FirstWorkingHost ==
    StaticReturnedURL =>
        LET h == IndexOf(static.url.host)
        IN  /\ \A j \in 1 .. h - 1 :
                 \E n \in 1 .. Len(static.probes) :
                    /\ static.probes[n].url.host = HostPool[j]
                    /\ ~ProbeSucceeded(static.probes[n].status)
            /\ \A n \in 1 .. Len(static.probes) :
                 IndexOf(static.probes[n].url.host) <= h

\* C26, amended: whenever StaticResolver returns a URL on host h, the probes
\* made with the token of that URL are those of the hosts up to h, in the
\* pool's order, all failed but the last, which returned 200; no host after
\* h was probed with that token; and the only other probes are those of a
\* secret-token pass in which every host of the pool failed.
C26_FirstWorkingHostOfPass ==
    StaticReturnedURL =>
        LET h == IndexOf(static.url.host)
            own == ProbesWith(static.url.token)
            other == SelectSeq(static.probes, LAMBDA p : p.url.token # static.url.token)
        IN  /\ Len(own) = h
            /\ \A j \in 1 .. h :
                 /\ own[j].url.host = HostPool[j]
                 /\ ProbeSucceeded(own[j].status) <=> j = h
            /\ static.probes = other \o own
            /\ other # << >> =>
                 /\ static.url.token = FallbackToken
                 /\ Len(other) = PoolSize
                 /\ \A j \in 1 .. PoolSize :
                      /\ other[j].url = ProbeURL(j, static.secret)
                      /\ ~ProbeSucceeded(other[j].status)

\* Every host failed with the secret token; with the fallback token the first
\* host failed again and the second answered 200.
C26_Witness ==
    /\ StaticReturnedURL
    /\ static.secret = "token-b"
    /\ static.url = ProbeURL(2, FallbackToken)
    /\ Len(static.probes) = PoolSize + 2
    /\ static.probes[PoolSize + 1].status = "404"

-----------------------------------------------------------------------------
(* The held capture over one resolution *)

\* The handler that finished in this step read a body with the marker.
ReadMarker(h) == h.ok /\ SegmentMarked(h.res)

\* C27: within one resolution the held capture only improves: a response
\* without the leaf-segment marker is recorded only when nothing is held, a
\* response with the marker always replaces what is held, and a held
\* segment-bearing capture is never replaced by one without the marker.
C27_CaptureOnlyImproves ==
    [][/\ \A h \in handled' \ handled :
            /\ (~ReadMarker(h) /\ captured' # captured) => captured.null
            /\ ReadMarker(h) =>
                  /\ captured'.hasExtinf
                  /\ captured'.url = h.res.url
                  /\ captured'.headers = h.res.headers
       /\ (~captured.null /\ captured.hasExtinf) =>
             (~captured'.null /\ captured'.hasExtinf)]_vars

\* The same for the steps of the response handlers alone.
C27_HandlersOnlyImprove ==
    [][\A h \in handled' \ handled :
            /\ (~ReadMarker(h) /\ captured' # captured) => captured.null
            /\ ReadMarker(h) =>
                  /\ captured'.hasExtinf
                  /\ captured'.url = h.res.url
                  /\ captured'.headers = h.res.headers
            /\ (~captured.null /\ captured.hasExtinf) =>
                  (~captured'.null /\ captured'.hasExtinf)]_vars

-----------------------------------------------------------------------------
(* The capture slot and its publication *)

\* What the handler of a response puts into the slot when its body was read.
CaptureOf(res) ==
    Capture(FinalURL(res.url, res.body), res.headers, HasExtinf(res.body))

\* What the handler puts into the slot when the read of the body failed.
CaptureUnread(res) == Capture(res.url, res.headers, FALSE)

\* The slot holds nothing, or one whole capture: that of one handled response,
\* or the DOM candidate with no headers.
OneCapture(c) ==
    \/ c.null
    \/ \E h \in handled : c = IF h.ok THEN CaptureOf(h.res) ELSE CaptureUnread(h.res)
    \/ \E u \in DomCandidates : DomAccepts(u) /\ c = Capture(u, NoHeaders, FALSE)

-----------------------------------------------------------------------------
(* Captures made while page.goto is still awaited *)

\* C29: the listener runs during navigation, and what it captured then is
\* kept: a capture held during page.goto has resolved the signal, the end of
\* page.goto leaves the slot, the signal and the suspended handlers as they
\* are, and a wait that starts with the signal resolved ends by the signal,
\* with a capture held and without a DOM scan.
C29_CaptureDuringNavigationKept ==
    [][/\ (rpc = "goto" /\ ~captured.null) => resolved
       /\ (rpc = "goto" /\ rpc' = "race") =>
             /\ captured' = captured
             /\ resolved' = resolved
             /\ pending' = pending
       /\ (rpc = "race" /\ resolved /\ rpc' # "race") =>
             /\ waitEnd' = "captured"
             /\ ~captured'.null
             /\ rpc' = "cookies"
             /\ domEvals' = domEvals]_vars

\* A playlist was captured while page.goto was awaited, page.goto then threw,
\* and the runner printed a capture without a DOM scan.
C29_Witness ==
    /\ navErr = "threw, capture held"
    /\ waitEnd = "captured"
    /\ domEvals = 0
    /\ RunnerSucceeded
    /\ ~stdout.null
    /\ \E h \in handled : h.inWait /\ h.ok

-----------------------------------------------------------------------------
(* The runner after the capture wait *)

\* C30: once the capture wait has ended the runner never awaits the capture
\* signal again and scans the DOM at most once, and when it has exited it has
\* closed the browser and printed one result, the held capture or the empty
\* result.
C30_AfterWaitOneResult ==
    /\ domEvals <= 1
    /\ waitEnd # "unset" => rpc \notin {"goto", "race"}
    /\ (waitEnd # "unset" /\ rpc = "exited") =>
          /\ browser = "closed"
          /\ exitCode = 0
          /\ stdout.null \/ stdout.url # EmptyURL

\* The wait ended by the timer, the DOM scan threw, and the runner exited
\* with the browser open and nothing printed.
C30_ExitedAfterWaitWithoutResult ==
    /\ waitEnd = "timeout"
    /\ domEvals = 1
    /\ rpc = "exited"
    /\ exitCode = 1
    /\ browser = "open"

-----------------------------------------------------------------------------
(* The DOM fallback against a capture made during its evaluation *)

\* C31: a network capture made while page.evaluate of the DOM fallback is
\* awaited is not replaced by the DOM candidate: when the evaluation returns,
\* the held capture keeps its URL and its headers.
C31_NetworkCaptureKept ==
    [][(rpc = "domEval" /\ ~captured.null /\ rpc' \notin {"domEval", "exited"}) =>
          /\ captured'.url = captured.url
          /\ captured'.headers = captured.headers]_vars

\* The runner printed the DOM candidate with no request headers although a
\* handler had captured a segment-bearing playlist during the DOM scan.
C31_DomCandidateReturned ==
    /\ RunnerSucceeded
    /\ waitEnd = "timeout"
    /\ \E h \in handled : h.ok /\ ~h.inWait /\ SegmentMarked(h.res)
    /\ stdout.url \in DomCandidates
    /\ ~stdout.hasExtinf
    /\ \A h \in handled : stdout.url # h.res.url

-----------------------------------------------------------------------------
(* LaunchMPVWithHeaders as a function of its arguments *)

\* C32: the argument list is determined by the URL, the header map and the
\* attach flag: whatever order the lookups visit the map in, the list built
\* is the same, also for maps with keys that differ only by letter case.
C32_ArgsDetermined ==
    ArgsBuilt =>
        \A vals \in LookupResults(hdrs) : args = BuildArgs(m3u8, vals, attachOutput)

\* Two keys that fold to the same name carry different values, and the list
\* built forwards one of them where another call would forward the other.
C32_OtherArgsPossible ==
    /\ ArgsBuilt
    /\ ~UniqueUnderFolding(hdrs)
    /\ \E vals \in LookupResults(hdrs) : args # BuildArgs(m3u8, vals, attachOutput)


-----------------------------------------------------------------------------
(* The temporary runner script *)

\* C33: when extractM3U8Lite has returned, no runner script it wrote is left:
\* the script is removed on success and on every failure after it was written
\* (runner error, no URL in the output), and the returns before
\* writePuppeteerRunner (blank embed URL, runtime lookup, availability check)
\* never created one.
C33_RunnerScriptRemoved ==
    epc = "returned" =>
        /\ runnerPath # "written"
        /\ resErr \in {"nil", "puppeteer runner failed", "m3u8 not found"} =>
               runnerPath = "removed"
        /\ resErr \in {"empty embed URL", "puppeteer-extra not found",
                       "puppeteer-extra or stealth plugin missing"} =>
               runnerPath = "none"

C33_Witness ==
    /\ epc = "returned"
    /\ resErr = "m3u8 not found"
    /\ runnerPath = "removed"


-----------------------------------------------------------------------------
(* A streams result that arrives after a later selection *)

\* A program in use with two matches listed: the user has pressed Enter on
\* the first match, moved to the second, and the lookup has not answered yet.
SelectInit ==
    /\ LaunchIdle
    /\ RunnerIdle
    /\ GoIdle
    /\ IdemIdle
    /\ AuxIdle
    /\ cpc = "idle"
    /\ embedURL = ""
    /\ currentView = "main"
    /\ extractions = {}
    /\ lastKey = NoKey
    /\ quit = FALSE
    /\ debugLines = EmptyLog
    /\ logTotal = 0
    /\ focus = focusMatches
    /\ \E list \in SportLists : sports = SetItems(prependPopularSport(list))
    /\ matches = CursorDown(SetItems(<< "m1", "m2" >>))
    /\ \E list \in StreamLists : streams = SetItems(reorderStreams(list))
    /\ cmds = {Cmd(MaxCmds - 1, "fetchStreamsForMatch", "m1", 0)}
    /\ cmdCount = MaxCmds - 1

\* The key messages and the answers of the match and stream lookups; the
\* sports were fetched once, when the program started.
SelectNext ==
    \/ KeyEsc \/ KeyHelp \/ KeyQuit \/ KeyLeftRight \/ KeyUpDown \/ KeyEnter
    \/ KeyOpenBrowser \/ KeyUnhandled
    \/ MatchesLoaded \/ StreamsLoaded

SpecSelect == SelectInit /\ [][SelectNext]_vars

\* The fetch commands started after c and still unanswered: each is a later
\* Enter on a sport (which cleared the streams) or on another match.
LaterSelections(c) ==
    { d \in cmds : /\ d.id > c.id
                   /\ \/ d.kind = "fetchMatchesForSport"
                      \/ d.kind = "fetchStreamsForMatch" /\ d.text # c.text }

\* The fetchStreamsForMatch command the step answers, if it answers one.
Answered(c) == c \in cmds /\ c \notin cmds' /\ c.kind = "fetchStreamsForMatch"

\* C34: the answer to a stream lookup that was overtaken by a later selection
\* (Enter on another match or on a sport, still unanswered) neither changes the
\* streams column nor moves the focus.
C34_LateResultIgnored ==
    [][\A c \in cmds : (Answered(c) /\ LaterSelections(c) # {}) =>
            /\ streams' = streams
            /\ focus' = focus]_vars

\* The streams column was cleared by Enter on a sport whose matches are still
\* being fetched, and shows the streams of the earlier lookup with the focus
\* on it.
C34_ClearedListRepopulated ==
    /\ \E d \in cmds : d.kind = "fetchMatchesForSport"
    /\ \A d \in cmds : d.kind # "fetchStreamsForMatch"
    /\ HasSelected(streams)
    /\ focus = focusStreams


-----------------------------------------------------------------------------
(* Dismissing the error shown in the status line *)

\* renderStatusLine: the error replaces the status text, with the hint
\* "(Esc to dismiss)", while lastError is not nil.
ErrorShown == currentView = "main" /\ lastError

\* C35: whenever the status line shows an error, the Esc key message clears
\* lastError, so that the status text is shown again.
C35_EscDismisses ==
    (ErrorShown /\ ~quit) => ENABLED (KeyEsc /\ ~lastError')


-----------------------------------------------------------------------------
(* The help view *)

\* The key messages other than Esc and the help toggle.
OtherKey ==
    \/ KeyQuit \/ KeyLeftRight \/ KeyUpDown \/ KeyEnter \/ KeyOpenBrowser
    \/ KeyUnhandled

\* The model of app.go and what Update returned with it: no field changes, no
\* command is started and the program is not told to quit.
ModelUnchanged ==
    UNCHANGED <<focus, currentView, sports, matches, streams, debugLines, logTotal,
                cmds, cmdCount, extractions, quit, lastError>>

\* C38: in the help view every key but Esc and the help toggle leaves the
\* model as it is and starts no command; Esc leads to the main view from
\* either view; the help toggle switches between the help and the main view.
C38_HelpViewGatesKeys ==
    [][/\ (currentView = "help" /\ OtherKey) => ModelUnchanged
       /\ KeyEsc => currentView' = "main"
       /\ KeyHelp => /\ currentView = "main" => currentView' = "help"
                     /\ currentView = "help" => currentView' = "main"]_vars

\* Enter was pressed in the help view over a highlighted stream, which it
\* would have launched or opened in the main view.
C38_Witness ==
    /\ currentView = "help"
    /\ lastKey.key = "enter"
    /\ focus = focusStreams
    /\ HasSelected(streams)
    /\ ~quit


-----------------------------------------------------------------------------
(* The scrollable list column, with the streams column as its instance *)

\* The three columns of the model.
Columns == {"sports", "matches", "streams"}

\* NewListColumn: no items, interior width 30, height 20. The record holds the
\* items, selection and scroll of the streams column and the geometry of all
\* three columns: they are created with the same width and height, and every
\* window-size message gives them the same height. api is the list the items
\* were made from by reorderStreams.
NewListColumn ==
    [api |-> << >>, items |-> << >>, selected |-> 0, scroll |-> 0, height |-> 20,
     width |-> [k \in Columns |-> 30]]

\* The zero value of Stream, which buildRows passes as prev for the first item.
ZeroStream == Stream("", "")

\* The separator of the streams column: "Browser Only" before an admin stream
\* that does not follow an admin stream.
Separator(prev, curr) == IsAdminSource(curr.source) /\ ~IsAdminSource(prev.source)

\* buildRows: the itemIndex of each row, -1 for a separator row.
buildRows(items) ==
    LET rows[i \in 0..Len(items)] ==
            IF i = 0 THEN << >>
            ELSE LET prev == IF i = 1 THEN ZeroStream ELSE items[i - 1]
                 IN  rows[i - 1]
                       \o (IF Separator(prev, items[i]) THEN << -1 >> ELSE << >>)
                       \o << i - 1 >>
    IN  rows[Len(items)]

\* ListColumn.clampScroll
clampScroll(c, totalRows) ==
    IF c.height <= 0 THEN [c EXCEPT !.scroll = 0]
    ELSE LET maxScroll == IF totalRows - c.height < 0 THEN 0 ELSE totalRows - c.height
             s1 == IF c.scroll > maxScroll THEN maxScroll ELSE c.scroll
         IN  [c EXCEPT !.scroll = IF s1 < 0 THEN 0 ELSE s1]

\* The index in rows of the row of item number sel, counted from 0.
RowOf(rows, sel) ==
    IF \E i \in DOMAIN rows : rows[i] = sel
    THEN (CHOOSE i \in DOMAIN rows : rows[i] = sel) - 1
    ELSE 0

\* ListColumn.ensureSelectedVisible
ensureSelectedVisible(c) ==
    IF Len(c.items) = 0 THEN [c EXCEPT !.scroll = 0]
    ELSE LET rows == buildRows(c.items)
             selRow == RowOf(rows, c.selected)
         IN  IF c.height <= 0 THEN [c EXCEPT !.scroll = selRow]
             ELSE LET s1 == IF selRow < c.scroll THEN selRow ELSE c.scroll
                      s2 == IF selRow >= s1 + c.height THEN selRow - c.height + 1 ELSE s1
                  IN  clampScroll([c EXCEPT !.scroll = s2], Len(rows))

\* ListColumn.SetItems
ListSetItems(c, items) == [c EXCEPT !.items = items, !.selected = 0, !.scroll = 0]

\* if c.selected > 0 { c.selected-- } of ListColumn.CursorUp
StepUp_Unguarded(c) == [c EXCEPT !.selected = @ - 1]

StepUp(c) == [c EXCEPT !.selected = IF @ > 0 THEN @ - 1 ELSE @]

\* ListColumn.CursorUp
ListCursorUp(c) == ensureSelectedVisible(StepUp(c))

\* ListColumn.CursorDown
ListCursorDown(c) ==
    ensureSelectedVisible(
        [c EXCEPT !.selected = IF @ < Len(c.items) - 1 THEN @ + 1 ELSE @])

\* ListColumn.SetHeight
SetHeight(height, h) == IF h > 6 THEN h - 6 ELSE height

\* ListColumn.SetWidth
SetWidth(w) == IF w < 4 THEN 0 ELSE w - 4

\* Integer division of Go, which truncates towards zero.
Quo(a, b) == IF a >= 0 THEN a \div b ELSE -((-a) \div b)

\* int(float64(msg.Width) * 0.95), for widths whose product is no whole number
\* or is zero, where rounding of the product cannot reach the result.
TotalAvailableWidth(w) == Quo(w * 95, 100)

\* case tea.WindowSizeMsg: the usable height
UsableHeight(h) == IF h - 10 < 5 THEN 5 ELSE h - 10

\* case tea.WindowSizeMsg: the width given to SetWidth for column k
AllocatedWidth(k, w) ==
    LET availableWidth == TotalAvailableWidth(w) - 12
        unit == Quo(availableWidth, 18)
        remainder == availableWidth - unit * 18
    IN  4 + (CASE k = "sports"  -> unit * 3
               [] k = "matches" -> unit * 10 + remainder
               [] k = "streams" -> unit * 5)

\* Terminal sizes of window-size messages.
TermHeights == {10, 17, 18, 30}

TermWidths == {0, 13, 30, 81}

\* The visible window of the column: the rows scroll .. scroll + height - 1.
SelectedRow(c) == RowOf(buildRows(c.items), c.selected)

\* case streamsLoadedMsg, and m.streams.SetItems(nil) of Enter on a sport
ColumnSetItems ==
    \E list \in StreamLists :
        column' = [ListSetItems(column, reorderStreams(list)) EXCEPT !.api = list]

\* Up and Down with the focus on the streams column
ColumnCursorUp == column' = ListCursorUp(column)

ColumnCursorDown == column' = ListCursorDown(column)

\* case tea.WindowSizeMsg, for a terminal of h rows and w columns
WindowSize(h, w) ==
    column' = [column EXCEPT
                 !.height = SetHeight(@, UsableHeight(h)),
                 !.width = [k \in Columns |-> SetWidth(AllocatedWidth(k, w))]]

ColumnResize == \E h \in TermHeights, w \in TermWidths : WindowSize(h, w)

\* ListColumn.View, which the program calls after every Update
ColumnView ==
    /\ Len(column.items) # 0
    /\ column' = clampScroll(column, Len(buildRows(column.items)))

ColumnFrame ==
    UNCHANGED <<launchVars, runnerVars, goVars, idemVars, tuiVars, cancel, derive,
                cache, inst, static, lastError>>

ColumnInit ==
    /\ LaunchIdle
    /\ RunnerIdle
    /\ GoIdle
    /\ IdemIdle
    /\ TUIIdle
    /\ cpc = "idle"
    /\ embedURL = ""
    /\ cancel = "none"
    /\ derive = NoDerive
    /\ cache = NoCache
    /\ inst = NoInstances
    /\ static = NoStatic
    /\ lastError = FALSE
    /\ column = NewListColumn

ColumnNext ==
    \/ ColumnSetItems /\ ColumnFrame
    \/ ColumnCursorUp /\ ColumnFrame
    \/ ColumnCursorDown /\ ColumnFrame
    \/ ColumnResize /\ ColumnFrame
    \/ ColumnView /\ ColumnFrame

SpecColumn == ColumnInit /\ [][ColumnNext]_vars


\* 0 <= selected < len(items) for a list with items, selected = 0 without.
SelectionInRange(c) ==
    IF Len(c.items) = 0 THEN c.selected = 0
    ELSE c.selected >= 0 /\ c.selected < Len(c.items)

\* C36: every step of SetItems, CursorUp, CursorDown (and of the resize and
\* View beside them) leaves the selected index inside the list, or at 0 for an
\* empty list; CursorUp on the first item and CursorDown on the last keep the
\* selection; SetItems sets selection and scroll to 0.
C36_SelectionInRange ==
    [][/\ SelectionInRange(column')
       /\ (ColumnCursorUp /\ column.selected = 0) => column'.selected = 0
       /\ (ColumnCursorDown /\ column.selected = Len(column.items) - 1) =>
              column'.selected = column.selected
       /\ ColumnSetItems => column'.selected = 0 /\ column'.scroll = 0]_vars

\* The cursor has been moved down to the last of several items, in a window
\* too low to show them all.
C36_Witness ==
    /\ Len(column.items) >= 2
    /\ column.selected = Len(column.items) - 1
    /\ column.height < Len(buildRows(column.items))


\* C37: the scroll offset is never negative and the row of the selected item,
\* separator rows counted, is one of the rows scroll .. scroll + height - 1
\* that the column shows.
C37_SelectedRowVisible ==
    /\ column.scroll >= 0
    /\ Len(column.items) # 0 =>
           /\ column.scroll <= SelectedRow(column)
           /\ SelectedRow(column) < column.scroll + column.height

\* View has run and the window still ends above the row of the selected item.
C37_SelectedBelowWindow ==
    /\ Len(column.items) # 0
    /\ column = clampScroll(column, Len(buildRows(column.items)))
    /\ SelectedRow(column) >= column.scroll + column.height


\* The position of stream st in list, whose streams are distinct.
PositionIn(list, st) == CHOOSE i \in DOMAIN list : list[i] = st

\* The rows of the streams column that are separators.
SeparatorRows(rows) == { i \in DOMAIN rows : rows[i] = -1 }

C40_ColumnsFitWindow ==
    [][\A h \in TermHeights, w \in TermWidths :
           WindowSize(h, w) =>
               /\ column'.height <= UsableHeight(h)
               /\ \A k \in Columns : column'.width[k] >= 0]_vars

\* The columns are still as high as they were created, in a window that was
\* given its widths by a window-size message.
C40_DefaultHeightKept ==
    /\ column.height = 20
    /\ column.width # NewListColumn.width

====
